---- MODULE Spec2Model ----
(***************************************************************************)
(* Model of the job-scraper ingestion core: PowerScraper.ScrapeAllSources  *)
(* (fan-out through a semaphore, per-task rate limiting and retry,         *)
(* fan-in over the results channel, deduplication, batched persistence).   *)
(* Goroutines are processes; every action is one atomic step of one        *)
(* goroutine between two of its synchronisation points.                    *)
(***************************************************************************)
EXTENDS Integers, Sequences, FiniteSets, TLC

\* ------------------------------------------------------------- bounds
\* Registered sources of the cycle specification.
NumSources == 2
\* Longest batch one FetchJobs call returns in the cycle specification.
MaxBatch == 2
\* Sources beyond the gate size in the gate specification.
ExtraGateSources == 2
\* Sources whose FetchJobs call returns in the gate specification.
GateReturning == 1
\* Records beyond one full batch in the persistence specification.
MaxTail == 1
\* Store calls that may fail in the persistence specification.
MaxSaveFaults == 2
\* Calls made on the Deduplicator in the deduplicator specification.
MaxDedupCalls == 3
\* Longest batch passed to the Deduplicator in that specification.
MaxDedupBatch == 2
\* Direct callers of Wait in the rate limiter specification.
NumCallers == 2
\* Calls of Wait each of them makes.
MaxWaitCalls == 2
\* Ticks of one limiter's ticker in that specification.
MaxTicks == 2
\* Largest attempt number passed to calculateBackoffDelay on its own.
MaxAttempt == 120
\* Longest batch passed to FindSimilarJobs.
MaxSimBatch == 3
\* Direct calls of the similarity functions in one run.
MaxSimCalls == 1
\* Ticks of the daemon's periodic ticker in one run.
MaxDaemonTicks == 3
\* Cycles run one after another on one orchestrator.
MaxCycles == 2
\* Calls each goroutine makes on the shared Deduplicator.
MaxAtomicCalls == 2

\* -------------------------------------------------- program constants
\* semaphore := make(chan struct{}, 5)
GateSize == 5
\* retryConfig.MaxRetries
MaxRetries == 3
\* const batchSize = 50
batchSize == 50
\* time.Second; a time.Duration is counted in milliseconds.
Second == 1000

\* ps.retryConfig as NewPowerScraper sets it; the float64 BackoffFactor
\* 2.0 is the ratio num/den.
retryConfig ==
    [MaxRetries |-> MaxRetries, InitialDelay |-> 1 * Second, MaxDelay |-> 30 * Second,
     BackoffFactor |-> [num |-> 2, den |-> 1]]

\* calculateBackoffDelay: the float64 product, converted to a Duration
\* (truncated), then capped.
calculateBackoffDelayExponential(attempt) ==
    LET delay == (retryConfig.InitialDelay * retryConfig.BackoffFactor.num ^ attempt)
                    \div (retryConfig.BackoffFactor.den ^ attempt)
    IN  IF delay > retryConfig.MaxDelay THEN retryConfig.MaxDelay ELSE delay

calculateBackoffDelay(attempt) ==
    LET delay == (retryConfig.InitialDelay * attempt * retryConfig.BackoffFactor.num)
                    \div retryConfig.BackoffFactor.den
    IN  IF delay > retryConfig.MaxDelay THEN retryConfig.MaxDelay ELSE delay

\* The registered sources of the cycle and of the gate specification.
CycleSources == 1..NumSources
Callers == 1..NumCallers
GateSources == 1..(GateSize + ExtraGateSources)


\* ------------------------------------------------------------ strings
\* A string is a sequence of characters; the alphabet is small.
Lower(c) ==
    IF c = "A" THEN "a" ELSE IF c = "B" THEN "b" ELSE IF c = "C" THEN "c" ELSE c

\* strings.ToLower
ToLower(str) == [i \in 1..Len(str) |-> Lower(str[i])]

RECURSIVE TrimLeft(_)
TrimLeft(str) ==
    IF str # <<>> /\ Head(str) = " " THEN TrimLeft(Tail(str)) ELSE str

RECURSIVE TrimRight(_)
TrimRight(str) ==
    IF str # <<>> /\ str[Len(str)] = " "
    THEN TrimRight(SubSeq(str, 1, Len(str) - 1))
    ELSE str

\* strings.TrimSpace
TrimSpace(str) == TrimRight(TrimLeft(str))

\* ---------------------------------------------------------------- jobs
\* models.Job, restricted to the fields the core reads.
Job(title, company, location, source, url) ==
    [Title |-> title, Company |-> company, Location |-> location,
     Source |-> source, URL |-> url]

Titles == {<<"a">>, <<"B", " ">>}

\* The records a source adapter can return in the cycle specification.
JobsOf(s) == {Job(t, <<"c">>, <<"r">>, s, 0) : t \in Titles}

RECURSIVE SeqsUpTo(_, _)
SeqsUpTo(S, n) ==
    IF n = 0 THEN {<<>>}
    ELSE LET shorter == SeqsUpTo(S, n - 1)
         IN  shorter \cup {Append(q, x) : q \in {r \in shorter : Len(r) = n - 1}, x \in S}

\* What one successful FetchJobs call of source s may return.
FetchBatches(s) == SeqsUpTo(JobsOf(s), MaxBatch)

\* What a failing FetchJobs call of source s may return beside its error.
PartialBatches(s) == SeqsUpTo(JobsOf(s), 1)

\* ------------------------------------------------------- deduplicator
\* md5.Sum: a digest; distinct keys have distinct digests.
md5(key) == <<"md5", key>>

generateJobHashWithURL(job) ==
    md5(<<ToLower(TrimSpace(job.Title)), ToLower(TrimSpace(job.Company)),
          ToLower(TrimSpace(job.Location)), job.URL>>)

generateJobHash(job) ==
    LET title    == ToLower(TrimSpace(job.Title))
        company  == ToLower(TrimSpace(job.Company))
        location == ToLower(TrimSpace(job.Location))
        key      == title \o <<"|">> \o company \o <<"|">> \o location
    IN  md5(key)

\* The loop of RemoveDuplicates: the pair <<uniqueJobs, seenJobs>> after
\* the records of jobs have been visited in order.
RECURSIVE DedupLoop(_, _, _)
DedupLoop(jobs, unique, seen) ==
    IF jobs = <<>> THEN <<unique, seen>>
    ELSE LET hash == generateJobHash(Head(jobs))
         IN  IF hash \notin seen
             THEN DedupLoop(Tail(jobs), Append(unique, Head(jobs)), seen \cup {hash})
             ELSE DedupLoop(Tail(jobs), unique, seen)

\* RemoveDuplicates: the pair <<uniqueJobs, seenJobs>> after the call.
RemoveDuplicatesPerBatch(jobs, seen) ==
    <<DedupLoop(jobs, <<>>, {})[1], seen \cup DedupLoop(jobs, <<>>, {})[2]>>

\* A sequence back to front.
RECURSIVE Reverse(_)
Reverse(seq) == IF seq = <<>> THEN <<>> ELSE Append(Reverse(Tail(seq)), Head(seq))

RemoveDuplicatesKeepsLast(jobs, seen) ==
    <<Reverse(DedupLoop(Reverse(jobs), <<>>, seen)[1]), DedupLoop(jobs, <<>>, seen)[2]>>

RemoveDuplicatesForgetful(jobs, seen) == <<DedupLoop(jobs, <<>>, seen)[1], seen>>

RemoveDuplicates(jobs, seen) == DedupLoop(jobs, <<>>, seen)

\* Deduplicator.IsDuplicate: a lookup that leaves the seen-set alone.
IsDuplicate(job, seen) == generateJobHash(job) \in seen

\* Deduplicator.Reset: the seen-set after the call.
Reset(seen) == {}

\* --------------------------------------------------------- similarity
\* A float64 value as an exact fraction in lowest terms.  Over the strings
\* and thresholds of this model every comparison the code makes on the
\* float64 values has the outcome the exact fractions give.
RECURSIVE GCD(_, _)
GCD(a, b) == IF b = 0 THEN a ELSE GCD(b, a % b)

Float(n, d) == IF n = 0 THEN [num |-> 0, den |-> 1]
               ELSE [num |-> n \div GCD(n, d), den |-> d \div GCD(n, d)]

FloatAdd(x, y) == Float(x.num * y.den + y.num * x.den, x.den * y.den)
FloatMul(x, y) == Float(x.num * y.num, x.den * y.den)
FloatLess(x, y) == x.num * y.den < y.num * x.den
FloatGeq(x, y) == ~FloatLess(x, y)

\* unicode.IsSpace, over the characters of the model.
IsSpace(c) == c = " "

\* strings.Fields: the maximal runs of non-space characters, in order.
RECURSIVE FieldsLoop(_, _, _)
FieldsLoop(str, word, words) ==
    IF str = <<>>
    THEN IF word = <<>> THEN words ELSE Append(words, word)
    ELSE IF IsSpace(Head(str))
         THEN FieldsLoop(Tail(str), <<>>,
                         IF word = <<>> THEN words ELSE Append(words, word))
         ELSE FieldsLoop(Tail(str), Append(word, Head(str)), words)

Fields(str) == FieldsLoop(str, <<>>, <<>>)

\* The map[string]bool built from a word list.
WordSet(words) == {words[i] : i \in 1..Len(words)}

stringSimilarityOneSided(s1, s2) ==
    IF s1 = s2 THEN Float(1, 1)
    ELSE IF s1 = <<>> \/ s2 = <<>> THEN Float(0, 1)
    ELSE LET set1 == WordSet(Fields(ToLower(s1)))
             set2 == WordSet(Fields(ToLower(s2)))
         IN  IF set1 = {} \/ set2 = {} THEN Float(0, 1)
             ELSE Float(Cardinality(set1 \cap set2), Cardinality(set1))

stringSimilarity(s1, s2) ==
    IF s1 = s2 THEN Float(1, 1)
    ELSE IF s1 = <<>> \/ s2 = <<>> THEN Float(0, 1)
    ELSE LET words1 == Fields(ToLower(s1))
             words2 == Fields(ToLower(s2))
         IN  IF Len(words1) = 0 \/ Len(words2) = 0 THEN Float(0, 1)
             ELSE LET set1 == WordSet(words1)
                      set2 == WordSet(words2)
                      intersection == Cardinality({word \in set2 : word \in set1})
                      union == Cardinality(set1)
                                   + Cardinality({word \in set2 : word \notin set1})
                  IN  IF union = 0 THEN Float(0, 1)
                      ELSE Float(intersection, union)

calculateSimilarity(job1, job2) ==
    LET titleSim    == stringSimilarity(job1.Title, job2.Title)
        companySim  == stringSimilarity(job1.Company, job2.Company)
        locationSim == stringSimilarity(job1.Location, job2.Location)
    IN  FloatAdd(FloatAdd(FloatMul(titleSim, Float(5, 10)),
                          FloatMul(companySim, Float(3, 10))),
                 FloatMul(locationSim, Float(2, 10)))

\* JobSimilarity
JobSimilarity(job1, job2, similarity) ==
    [Job1 |-> job1, Job2 |-> job2, Similarity |-> similarity]

\* The nested loops of FindSimilarJobs from position <<i, j>> on.
RECURSIVE FindSimilarLoop(_, _, _, _, _)
FindSimilarLoop(jobs, threshold, i, j, similarities) ==
    IF i > Len(jobs) THEN similarities
    ELSE IF j > Len(jobs)
         THEN FindSimilarLoop(jobs, threshold, i + 1, i + 2, similarities)
         ELSE LET similarity == calculateSimilarity(jobs[i], jobs[j])
              IN  FindSimilarLoop(jobs, threshold, i, j + 1,
                      IF FloatGeq(similarity, threshold) /\ FloatLess(similarity, Float(1, 1))
                      THEN Append(similarities,
                                  JobSimilarity(jobs[i], jobs[j], similarity))
                      ELSE similarities)

FindSimilarJobsAllPairs(jobs, threshold) ==
    FindSimilarLoop(jobs, Float(0, 1), 1, 2, <<>>)

FindSimilarJobs(jobs, threshold) == FindSimilarLoop(jobs, threshold, 1, 2, <<>>)

\* ---------------------------------------------------------------- state
VARIABLES
    configs,        \* SourceManager.configs: name -> [Enabled, RateLimit]
    cancelled,      \* ctx.Done() is closed
    mainPc,         \* position of ScrapeAllSources
    ret,            \* what ScrapeAllSources returned
    enabledSources, \* the local map of ScrapeAllSources
    pc,             \* position of each source goroutine
    attempt,        \* loop variable of scrapeSource
    result,         \* the ScraperResult a task built
    resultsChan,    \* buffered channel of ScraperResult
    closed,         \* resultsChan is closed
    wg,             \* sync.WaitGroup counter
    semaphore,      \* number of elements in the semaphore channel
    limiters,       \* RateLimiter.limiters: name -> limiter or NoLimiter
    allJobs,        \* merged unique records
    seenJobs,       \* Deduplicator.seenJobs (set of digests)
    metrics,        \* ScraperMetrics
    saveI,          \* loop variable i of saveJobs
    saveJ,          \* position of the fallback loop in the current batch
    savePc,         \* position inside saveJobs
    storeCalls,     \* every call made on the storage.Store, in order
    trace,          \* per task: the events of its run, in order
    ddCalls,        \* every call made on the Deduplicator by a direct caller
    rlCallers,      \* direct callers of RateLimiter.Wait: position and locals
    rlGen,          \* per source: number of limiters created for it so far
    rlRetired,      \* the replaced limiters: <<source, number>> -> limiter
    rlTicks,        \* per source: ticks of the registered limiter's ticker
    rlAcq,          \* per source: the tick counts at which the registered
                    \* limiter handed out a token, in order
    boCall,         \* the last direct call of calculateBackoffDelay
    simCalls,       \* every direct call of a similarity function, in order
    mainAt,         \* position of the daemon's main
    periodicAt,     \* position of the runPeriodicScraping goroutine
    ScrapingInterval, \* cfg.Scraper.ScrapingInterval as main read it
    tickerC,        \* number of ticks waiting in ticker.C (capacity 1)
    ticks,          \* ticks the periodic ticker has produced so far
    sigChan,        \* number of signals waiting in sigChan (capacity 1)
    scraperDone,    \* the scraperDone channel is closed
    cycleLog,       \* what each finished ScrapeAllSources call amounted to
    ddMu,           \* Deduplicator.mu: the writer and the readers holding it
    ddRun           \* goroutines inside a Deduplicator method: position, locals

vars == <<configs, cancelled, mainPc, ret, enabledSources, pc, attempt, result,
          resultsChan, closed, wg, semaphore, limiters, allJobs, seenJobs,
          metrics, saveI, saveJ, savePc, storeCalls, trace, ddCalls, rlCallers,
          rlGen, rlRetired, rlTicks, rlAcq, boCall, simCalls, mainAt, periodicAt,
          ScrapingInterval, tickerC, ticks, sigChan, scraperDone, cycleLog,
          ddMu, ddRun>>

\* The sources of the run: the names the registry holds.
Sources == DOMAIN configs

taskVars == <<pc, attempt, result, trace>>
saveVars == <<saveI, saveJ, savePc, storeCalls>>

\* The state of the component-level specifications, which the steps of
\* the cycle leave alone.
daemonVars == <<mainAt, periodicAt, ScrapingInterval, tickerC, ticks, sigChan,
                scraperDone, cycleLog, ddMu, ddRun>>
unitVars == <<ddCalls, rlCallers, rlGen, rlRetired, rlTicks, rlAcq, boCall, simCalls,
              daemonVars>>
limiterVars == <<rlCallers, rlGen, rlRetired, rlTicks, rlAcq>>

\* calculateBackoffDelay has not been called.
NoBackoffCall == [attempt |-> 0, delay |-> -1]

\* A direct caller of Wait that is not inside a call.
IdleCaller == [pc |-> "idle", source |-> 0, rpm |-> 0, ref |-> <<0, 0>>,
               calls |-> 0, out |-> "none"]

\* The zero value of sync.RWMutex.
Unlocked == [writer |-> 0, readers |-> {}]

\* A goroutine that is in no method of the Deduplicator.
Outside == [op |-> "none", pc |-> "idle", jobs |-> <<>>, i |-> 0, seen |-> FALSE,
            out |-> <<>>, calls |-> 0, began |-> 0]

\* No component-level caller has run.
UnitIdle ==
    /\ ddCalls = <<>>
    /\ rlCallers = [c \in Callers |-> IdleCaller]
    /\ rlGen = [s \in Sources |-> 0]
    /\ rlRetired = <<>>
    /\ rlTicks = [s \in Sources |-> 0]
    /\ rlAcq = [s \in Sources |-> <<>>]
    /\ boCall = NoBackoffCall
    /\ simCalls = <<>>
    /\ mainAt = "boot"
    /\ periodicAt = "absent"
    /\ ScrapingInterval = 0
    /\ tickerC = 0
    /\ ticks = 0
    /\ sigChan = 0
    /\ scraperDone = FALSE
    /\ cycleLog = <<>>
    /\ ddMu = Unlocked
    /\ ddRun = [c \in Callers |-> Outside]

NoLimiter == [limit |-> 0, tokens |-> 0, live |-> FALSE]
NoResult == [Source |-> 0, Jobs |-> <<>>, Error |-> "none"]

ZeroSourceMetrics ==
    [JobsScraped |-> 0, Duplicates |-> 0, Errors |-> 0, Timed |-> FALSE]

ZeroMetrics ==
    [TotalJobsScraped |-> 0, TotalJobsSaved |-> 0, TotalDuplicates |-> 0,
     TotalErrors |-> 0, SourcePerformance |-> [s \in Sources |-> ZeroSourceMetrics]]

\* JobSource.GetRateLimit of the registered adapters (RemoteOK is source 1,
\* the others answer as Remotive does).
GetRateLimit(s) == IF s = 1 THEN 60 ELSE 100

\* InitializeSources: RegisterSource(source, {Enabled, RateLimit: GetRateLimit()})
\* for the sources of S, each enabled or not.
Registrations(S) ==
    {c \in [S -> [Enabled : BOOLEAN, RateLimit : {60, 100}]] :
        \A s \in S : c[s].RateLimit = GetRateLimit(s)}

\* NewPowerScraper, then the registration of the sources.
InitWith(cfgs) ==
    /\ configs \in cfgs
    /\ cancelled = FALSE
    /\ mainPc = "idle"
    /\ ret = "none"
    /\ enabledSources = {}
    /\ pc = [s \in Sources |-> "unspawned"]
    /\ attempt = [s \in Sources |-> 0]
    /\ result = [s \in Sources |-> NoResult]
    /\ resultsChan = <<>>
    /\ closed = FALSE
    /\ wg = 0
    /\ semaphore = 0
    /\ limiters = [s \in Sources |-> NoLimiter]
    /\ allJobs = <<>>
    /\ seenJobs = {}
    /\ metrics = ZeroMetrics
    /\ saveI = 0
    /\ saveJ = 0
    /\ savePc = "none"
    /\ storeCalls = <<>>
    /\ trace = [s \in Sources |-> <<>>]
    /\ UnitIdle

Init == InitWith(Registrations(CycleSources))

\* SourceManager.GetEnabledSources
GetEnabledSourcesIgnoresConfig == Sources

GetEnabledSources == {s \in Sources : configs[s].Enabled}

Log(s, ev) == [trace EXCEPT ![s] = Append(@, ev)]


\* ------------------------------------------------------- rate limiter
\* RateLimiter.getLimiter: the registry after the call.  An entry whose
\* limit equals requestsPerMinute is kept; otherwise the old ticker is
\* stopped and a limiter pre-filled to requestsPerMinute replaces it.
getLimiterOneShort(lims, source, requestsPerMinute) ==
    IF lims[source].live /\ lims[source].limit = requestsPerMinute
    THEN lims
    ELSE [lims EXCEPT ![source] =
            [limit |-> requestsPerMinute, tokens |-> requestsPerMinute - 1, live |-> TRUE]]

\* A registry with one pool for all sources: a replacement re-creates the
\* limiter of every source.
getLimiterOnePool(lims, source, requestsPerMinute) ==
    IF lims[source].live /\ lims[source].limit = requestsPerMinute
    THEN lims
    ELSE [s \in DOMAIN lims |->
            [limit |-> requestsPerMinute, tokens |-> requestsPerMinute, live |-> TRUE]]

getLimiter(lims, source, requestsPerMinute) ==
    IF lims[source].live /\ lims[source].limit = requestsPerMinute
    THEN lims
    ELSE [lims EXCEPT ![source] =
            [limit |-> requestsPerMinute, tokens |-> requestsPerMinute, live |-> TRUE]]

\* A refill whose send has no default case and no bounded channel.
RefillTokenUnbounded(l) == [l EXCEPT !.tokens = @ + 1]

\* The select of startRefill on one tick: a token is put into the channel
\* unless the channel is full.
RefillToken(l) == IF l.tokens < l.limit THEN [l EXCEPT !.tokens = @ + 1] ELSE l

\* sourceLimiter.startRefill: one tick of the ticker of the registered
\* limiter of s (a stopped ticker does not tick).
Refill(s) ==
    /\ limiters[s].live
    /\ rlTicks[s] < MaxTicks
    /\ limiters' = [limiters EXCEPT ![s] = RefillToken(@)]
    /\ rlTicks' = [rlTicks EXCEPT ![s] = @ + 1]
    /\ UNCHANGED <<configs, cancelled, mainPc, ret, enabledSources, resultsChan,
                   closed, wg, semaphore, allJobs, seenJobs, metrics>>
    /\ UNCHANGED <<ddCalls, rlCallers, rlGen, rlRetired, rlAcq, boCall, simCalls,
                   daemonVars>>
    /\ UNCHANGED taskVars
    /\ UNCHANGED saveVars

\* --------------------------------------------------- source goroutine
\* semaphore <- struct{}{} does not block
GateHasRoomOffByOne == semaphore <= GateSize

GateHasRoom == semaphore < GateSize

\* Acquire semaphore, then enter scrapeSource.
TaskAcquireGate(s) ==
    /\ pc[s] = "gate"
    /\ GateHasRoom
    /\ semaphore' = semaphore + 1
    /\ pc' = [pc EXCEPT ![s] = "limiter"]
    /\ trace' = Log(s, "gate")
    /\ UNCHANGED <<configs, cancelled, mainPc, ret, enabledSources, attempt, result,
                   resultsChan, closed, wg, limiters, allJobs, seenJobs, metrics>>
    /\ UNCHANGED unitVars
    /\ UNCHANGED saveVars

\* scrapeSource: GetSourceConfig, then the getLimiter call of Wait.
TaskGetLimiter(s) ==
    /\ pc[s] = "limiter"
    /\ limiters' = getLimiter(limiters, s, configs[s].RateLimit)
    /\ pc' = [pc EXCEPT ![s] = "wait"]
    /\ trace' = Log(s, "wait")
    /\ UNCHANGED <<configs, cancelled, mainPc, ret, enabledSources, attempt, result,
                   resultsChan, closed, wg, semaphore, allJobs, seenJobs, metrics>>
    /\ UNCHANGED unitVars
    /\ UNCHANGED saveVars

\* The select of RateLimiter.Wait.  A case can be chosen when it is
\* ready; when both are ready either is chosen.
WaitReady(s) ==
    {c \in {"ctx", "token"} :
        \/ c = "ctx" /\ cancelled
        \/ c = "token" /\ limiters[s].tokens > 0}

\* What scrapeSource does with the outcome of Wait: an error makes it
\* return at once, a token lets it enter the retry loop.
AfterWaitFetchAnyway(s, choice) ==
    /\ pc' = [pc EXCEPT ![s] = "fetch"]
    /\ attempt' = [attempt EXCEPT ![s] = 0]
    /\ result' = result

AfterWait(s, choice) ==
    IF choice = "ctx"
    THEN /\ result' = [result EXCEPT ![s] =
                          [Source |-> s, Jobs |-> <<>>, Error |-> "ratelimit"]]
         /\ pc' = [pc EXCEPT ![s] = "send"]
         /\ attempt' = attempt
    ELSE /\ pc' = [pc EXCEPT ![s] = "fetch"]
         /\ attempt' = [attempt EXCEPT ![s] = 0]
         /\ result' = result

TaskWait(s, choice) ==
    /\ pc[s] = "wait"
    /\ choice \in WaitReady(s)
    /\ limiters' = IF choice = "token"
                   THEN [limiters EXCEPT ![s].tokens = @ - 1]
                   ELSE limiters
    /\ trace' = Log(s, IF choice = "token" THEN "token" ELSE "wait_ctx")
    /\ AfterWait(s, choice)
    /\ UNCHANGED <<configs, cancelled, mainPc, ret, enabledSources, resultsChan,
                   closed, wg, semaphore, allJobs, seenJobs, metrics>>
    /\ UNCHANGED unitVars
    /\ UNCHANGED saveVars

\* for attempt := 0; attempt <= ps.retryConfig.MaxRetries; attempt++
RetryLoopCondOneMore(a) == a <= MaxRetries + 1

RetryLoopCond(a) == a <= MaxRetries

\* After a FetchJobs call: if lastError == nil { break }
BreaksLoop(ok) == ok

\* What a FetchJobs call returns: ([]models.Job, error).  The interface
\* lets an adapter return records together with an error.
Ok(batch) == [ok |-> TRUE, jobs |-> batch]
Failed(batch) == [ok |-> FALSE, jobs |-> batch]

\* The tail of scrapeSource once the loop is left with lastError: the
\* per-source error counter, then the result.
ExitLoop(s, jobs, lastError) ==
    /\ metrics' = IF lastError # "nil"
                  THEN [metrics EXCEPT !.SourcePerformance[s].Errors = @ + 1]
                  ELSE metrics
    /\ result' = [result EXCEPT ![s] =
                     [Source |-> s, Jobs |-> jobs, Error |-> lastError]]
    /\ pc' = [pc EXCEPT ![s] = "send"]

\* One FetchJobs call and the loop bookkeeping that follows it.
TaskFetch(s, outcome) ==
    /\ pc[s] = "fetch"
    /\ IF BreaksLoop(outcome.ok)
       THEN /\ ExitLoop(s, outcome.jobs, IF outcome.ok THEN "nil" ELSE "fetch")
            /\ attempt' = attempt
            /\ trace' = Log(s, IF outcome.ok THEN "fetch_ok" ELSE "fetch_fail")
       ELSE /\ attempt' = [attempt EXCEPT ![s] = @ + 1]
            /\ IF RetryLoopCond(attempt[s] + 1)
               THEN /\ pc' = [pc EXCEPT ![s] = "backoff"]
                    /\ trace' = [trace EXCEPT ![s] =
                          @ \o <<IF outcome.ok THEN "fetch_ok" ELSE "fetch_fail",
                                 "backoff">>]
                    /\ UNCHANGED <<metrics, result>>
               ELSE /\ ExitLoop(s, outcome.jobs, IF outcome.ok THEN "nil" ELSE "fetch")
                    /\ trace' = Log(s, IF outcome.ok THEN "fetch_ok" ELSE "fetch_fail")
    /\ UNCHANGED <<configs, cancelled, mainPc, ret, enabledSources, resultsChan,
                   closed, wg, semaphore, limiters, allJobs, seenJobs>>
    /\ UNCHANGED unitVars
    /\ UNCHANGED saveVars

\* The select of the retry wait.  The delay is positive, so the timer is
\* not ready when the select is entered, and a goroutine parked in a
\* select is woken by the first case that becomes ready: the timer case
\* is taken only while ctx.Done() is still open.
BackoffReady(s) ==
    {c \in {"ctx", "timer"} :
        \/ c = "ctx" /\ cancelled
        \/ c = "timer" /\ ~cancelled}

\* case <-ctx.Done(): return ScraperResult{Error: ctx.Err()}
BackoffCancelledReportsLastError(s) ==
    /\ result' = [result EXCEPT ![s] = [Source |-> s, Jobs |-> <<>>, Error |-> "fetch"]]
    /\ pc' = [pc EXCEPT ![s] = "send"]

BackoffCancelled(s) ==
    /\ result' = [result EXCEPT ![s] = [Source |-> s, Jobs |-> <<>>, Error |-> "ctx"]]
    /\ pc' = [pc EXCEPT ![s] = "send"]

TaskBackoff(s, choice) ==
    /\ pc[s] = "backoff"
    /\ choice \in BackoffReady(s)
    /\ IF choice = "ctx"
       THEN /\ BackoffCancelled(s)
            /\ trace' = Log(s, "backoff_ctx")
       ELSE /\ pc' = [pc EXCEPT ![s] = "fetch"]
            /\ result' = result
            /\ trace' = Log(s, "backoff_done")
    /\ UNCHANGED <<configs, cancelled, mainPc, ret, enabledSources, attempt,
                   resultsChan, closed, wg, semaphore, limiters, allJobs, seenJobs,
                   metrics>>
    /\ UNCHANGED unitVars
    /\ UNCHANGED saveVars

\* resultsChan <- result (the buffer holds one result per enabled source);
\* the goroutine's local result is dead afterwards.
TaskSendKeepsSlotOnError(s) ==
    /\ pc[s] = "send"
    /\ Len(resultsChan) < Cardinality(enabledSources)
    /\ resultsChan' = Append(resultsChan, result[s])
    /\ result' = [result EXCEPT ![s] = NoResult]
    /\ pc' = [pc EXCEPT ![s] = IF result[s].Error = "nil" THEN "release" ELSE "wgdone"]
    /\ trace' = Log(s, "send")
    /\ UNCHANGED <<configs, cancelled, mainPc, ret, enabledSources, attempt,
                   closed, wg, semaphore, limiters, allJobs, seenJobs, metrics>>
    /\ UNCHANGED unitVars
    /\ UNCHANGED saveVars

TaskSend(s) ==
    /\ pc[s] = "send"
    /\ Len(resultsChan) < Cardinality(enabledSources)
    /\ resultsChan' = Append(resultsChan, result[s])
    /\ result' = [result EXCEPT ![s] = NoResult]
    /\ pc' = [pc EXCEPT ![s] = "release"]
    /\ trace' = Log(s, "send")
    /\ UNCHANGED <<configs, cancelled, mainPc, ret, enabledSources, attempt,
                   closed, wg, semaphore, limiters, allJobs, seenJobs, metrics>>
    /\ UNCHANGED unitVars
    /\ UNCHANGED saveVars

\* defer func() { <-semaphore }()
TaskReleaseGate(s) ==
    /\ pc[s] = "release"
    /\ semaphore' = semaphore - 1
    /\ pc' = [pc EXCEPT ![s] = "wgdone"]
    /\ trace' = Log(s, "release")
    /\ UNCHANGED <<configs, cancelled, mainPc, ret, enabledSources, attempt, result,
                   resultsChan, closed, wg, limiters, allJobs, seenJobs, metrics>>
    /\ UNCHANGED unitVars
    /\ UNCHANGED saveVars

\* A task that returns without wg.Done().
TaskReturnsWithoutDone(s) ==
    /\ pc[s] = "wgdone"
    /\ wg' = wg
    /\ pc' = [pc EXCEPT ![s] = "exited"]
    /\ UNCHANGED <<configs, cancelled, mainPc, ret, enabledSources, attempt, result,
                   resultsChan, closed, semaphore, limiters, allJobs, seenJobs,
                   metrics, trace>>
    /\ UNCHANGED unitVars
    /\ UNCHANGED saveVars

\* defer wg.Done()
TaskDone(s) ==
    /\ pc[s] = "wgdone"
    /\ wg' = wg - 1
    /\ pc' = [pc EXCEPT ![s] = "exited"]
    /\ UNCHANGED <<configs, cancelled, mainPc, ret, enabledSources, attempt, result,
                   resultsChan, closed, semaphore, limiters, allJobs, seenJobs,
                   metrics, trace>>
    /\ UNCHANGED unitVars
    /\ UNCHANGED saveVars


\* ---------------------------------------------------- ScrapeAllSources
\* enabledSources := GetEnabledSources(); the early return when empty.
Start ==
    /\ mainPc = "idle"
    /\ enabledSources' = GetEnabledSources
    /\ IF GetEnabledSources = {}
       THEN /\ ret' = "no_enabled_sources"
            /\ mainPc' = "done"
       ELSE /\ ret' = ret
            /\ mainPc' = "fanout"
    /\ UNCHANGED <<configs, cancelled, resultsChan, closed, wg, semaphore, limiters,
                   allJobs, seenJobs, metrics>>
    /\ UNCHANGED unitVars
    /\ UNCHANGED taskVars
    /\ UNCHANGED saveVars

\* One iteration of the fan-out loop: wg.Add(1); go func(...)
Spawn(s) ==
    /\ mainPc = "fanout"
    /\ s \in enabledSources
    /\ pc[s] = "unspawned"
    /\ wg' = wg + 1
    /\ pc' = [pc EXCEPT ![s] = "gate"]
    /\ UNCHANGED <<configs, cancelled, mainPc, ret, enabledSources, attempt, result,
                   resultsChan, closed, semaphore, limiters, allJobs, seenJobs,
                   metrics, trace>>
    /\ UNCHANGED unitVars
    /\ UNCHANGED saveVars

\* The loop is over: the closer goroutine is started and the collection
\* loop is entered.
StartCollect ==
    /\ mainPc = "fanout"
    /\ \A s \in enabledSources : pc[s] # "unspawned"
    /\ mainPc' = "collect"
    /\ UNCHANGED <<configs, cancelled, ret, enabledSources, resultsChan, closed, wg,
                   semaphore, limiters, allJobs, seenJobs, metrics>>
    /\ UNCHANGED unitVars
    /\ UNCHANGED taskVars
    /\ UNCHANGED saveVars

\* go func() { wg.Wait(); close(resultsChan) }()
\* wg.Wait() returns
WaitGroupZero == wg = 0

CloseResults ==
    /\ mainPc \notin {"idle", "fanout"}
    /\ ~closed
    /\ WaitGroupZero
    /\ closed' = TRUE
    /\ UNCHANGED <<configs, cancelled, mainPc, ret, enabledSources, resultsChan, wg,
                   semaphore, limiters, allJobs, seenJobs, metrics>>
    /\ UNCHANGED unitVars
    /\ UNCHANGED taskVars
    /\ UNCHANGED saveVars

\* The body of the collection loop for a result whose Error is not nil:
\* the record <<allJobs, seenJobs, metrics>> afterwards.
CollectError(res) ==
    [jobs    |-> allJobs,
     seen    |-> seenJobs,
     metrics |-> [metrics EXCEPT !.TotalErrors = @ + 1]]

\* The body of the collection loop for a successful result.
CollectJobs(res) ==
    LET dd         == RemoveDuplicates(res.Jobs, seenJobs)
        uniqueJobs == dd[1]
        duplicates == Len(res.Jobs) - Len(uniqueJobs)
    IN  [jobs    |-> allJobs \o uniqueJobs,
         seen    |-> dd[2],
         metrics |-> [metrics EXCEPT
                        !.TotalJobsScraped = @ + Len(res.Jobs),
                        !.TotalDuplicates = @ + duplicates,
                        !.SourcePerformance[res.Source] =
                            [@ EXCEPT !.JobsScraped = Len(res.Jobs),
                                      !.Duplicates = duplicates,
                                      !.Timed = TRUE]]]

CollectBodyKeepsFailed(res) == CollectJobs(res)

CollectBodyCountsUnique(res) ==
    IF res.Error # "nil" THEN CollectError(res)
    ELSE [CollectJobs(res) EXCEPT
            !.metrics.TotalJobsScraped =
                metrics.TotalJobsScraped + Len(RemoveDuplicates(res.Jobs, seenJobs)[1])]

CollectBody(res) ==
    IF res.Error # "nil" THEN CollectError(res) ELSE CollectJobs(res)

\* for result := range resultsChan: one received result.
Collect ==
    /\ mainPc = "collect"
    /\ resultsChan # <<>>
    /\ LET res == Head(resultsChan)
           out == CollectBody(res)
       IN  /\ resultsChan' = Tail(resultsChan)
           /\ allJobs' = out.jobs
           /\ seenJobs' = out.seen
           /\ metrics' = out.metrics
           /\ trace' = Log(res.Source, "consumed")
    /\ UNCHANGED <<configs, cancelled, mainPc, ret, enabledSources, pc, attempt,
                   result, closed, wg, semaphore, limiters>>
    /\ UNCHANGED unitVars
    /\ UNCHANGED saveVars

\* The range loop ends on the closed, drained channel.
RangeEndsWhenEmpty == resultsChan = <<>>

RangeEnds == resultsChan = <<>> /\ closed

\* After the loop: if len(allJobs) > 0 { saveJobs(...) }, else return nil.
CollectEnd ==
    /\ mainPc = "collect"
    /\ RangeEnds
    /\ IF Len(allJobs) > 0
       THEN /\ mainPc' = "save"
            /\ savePc' = "batch"
            /\ saveI' = 0
            /\ ret' = ret
       ELSE /\ mainPc' = "done"
            /\ ret' = "nil"
            /\ UNCHANGED <<savePc, saveI>>
    /\ UNCHANGED <<configs, cancelled, enabledSources, resultsChan, closed, wg,
                   semaphore, limiters, allJobs, seenJobs, metrics, saveJ, storeCalls>>
    /\ UNCHANGED unitVars
    /\ UNCHANGED taskVars

\* ------------------------------------------------------------ saveJobs
Min(a, b) == IF a < b THEN a ELSE b

\* batch := jobs[i:end]
BatchOneShort(jobs, i) == SubSeq(jobs, i + 1, Min(i + batchSize - 1, Len(jobs)))

Batch(jobs, i) == SubSeq(jobs, i + 1, Min(i + batchSize, Len(jobs)))

SaveJobsCall(batch, ok) == [op |-> "SaveJobs", jobs |-> batch, ok |-> ok]
SaveJobCall(job, ok) == [op |-> "SaveJob", jobs |-> <<job>>, ok |-> ok]

\* ps.storage.SaveJobs(batch); a failure starts the fallback loop.
SaveBatch(ok) ==
    /\ mainPc = "save"
    /\ savePc = "batch"
    /\ storeCalls' = Append(storeCalls, SaveJobsCall(Batch(allJobs, saveI), ok))
    /\ IF ok
       THEN /\ savePc' = "check"
            /\ saveJ' = saveJ
       ELSE /\ savePc' = "fallback"
            /\ saveJ' = 1
    /\ UNCHANGED <<configs, cancelled, mainPc, ret, enabledSources, resultsChan,
                   closed, wg, semaphore, limiters, allJobs, seenJobs, metrics, saveI>>
    /\ UNCHANGED unitVars
    /\ UNCHANGED taskVars

\* What the fallback loop does after a SaveJob call: it goes on with the
\* next record of the batch whatever the call returned.
FallbackStopsOnError(ok) ==
    IF ok /\ saveJ < Len(Batch(allJobs, saveI)) THEN "fallback" ELSE "check"

FallbackNext(ok) ==
    IF saveJ < Len(Batch(allJobs, saveI)) THEN "fallback" ELSE "check"

\* One iteration of the fallback loop: ps.storage.SaveJob(&job).
SaveOne(ok) ==
    /\ mainPc = "save"
    /\ savePc = "fallback"
    /\ storeCalls' = Append(storeCalls, SaveJobCall(Batch(allJobs, saveI)[saveJ], ok))
    /\ savePc' = FallbackNext(ok)
    /\ saveJ' = saveJ + 1
    /\ UNCHANGED <<configs, cancelled, mainPc, ret, enabledSources, resultsChan,
                   closed, wg, semaphore, limiters, allJobs, seenJobs, metrics, saveI>>
    /\ UNCHANGED unitVars
    /\ UNCHANGED taskVars

\* ps.metrics.TotalJobsSaved = int64(len(allJobs)) after saveJobs returned
\* nil.
SavedCountOfBatches ==
    LET ok == {c \in 1..Len(storeCalls) :
                  storeCalls[c].op = "SaveJobs" /\ storeCalls[c].ok}
    IN  IF ok = {} THEN 0 ELSE batchSize * (Cardinality(ok) - 1) + Len(storeCalls[Len(storeCalls)].jobs)

SavedCount == Len(allJobs)

\* select { case <-ctx.Done(): return ctx.Err(); default: } at the end of
\* an iteration of the batch loop: the first case is taken.
SaveCtxDoneNever == FALSE

SaveCtxDone == cancelled

\* The end of one iteration of the batch loop: the cancellation check,
\* then either the next batch or the return of saveJobs; on a nil return
\* ScrapeAllSources sets TotalJobsSaved and returns nil.
SaveCheck ==
    /\ mainPc = "save"
    /\ savePc = "check"
    /\ IF SaveCtxDone
       THEN /\ ret' = "failed_to_save_jobs_ctx"
            /\ mainPc' = "done"
            /\ savePc' = "none"
            /\ UNCHANGED <<saveI, metrics>>
       ELSE /\ saveI' = saveI + batchSize
            /\ IF saveI + batchSize < Len(allJobs)
               THEN /\ savePc' = "batch"
                    /\ UNCHANGED <<ret, mainPc, metrics>>
               ELSE /\ savePc' = "none"
                    /\ metrics' = [metrics EXCEPT !.TotalJobsSaved = SavedCount]
                    /\ ret' = "nil"
                    /\ mainPc' = "done"
    /\ UNCHANGED <<configs, cancelled, enabledSources, resultsChan, closed, wg,
                   semaphore, limiters, allJobs, seenJobs, saveJ, storeCalls>>
    /\ UNCHANGED unitVars
    /\ UNCHANGED taskVars

\* ---------------------------------------------------------- environment
\* The cancellation signal fires (shutdown or deadline).
Cancel ==
    /\ ~cancelled
    /\ mainPc # "done"
    /\ cancelled' = TRUE
    /\ trace' = [s \in Sources |->
                    IF pc[s] = "backoff" THEN Append(trace[s], "cancel") ELSE trace[s]]
    /\ UNCHANGED <<configs, mainPc, ret, enabledSources, pc, attempt, result,
                   resultsChan, closed, wg, semaphore, limiters, allJobs, seenJobs,
                   metrics>>
    /\ UNCHANGED unitVars
    /\ UNCHANGED saveVars

\* ---------------------------------------------------- specifications
\* One cycle of a fresh orchestrator over at most NumSources sources;
\* every fetch and every store call may fail, the signal may fire at any
\* moment.  Each limiter is created full in the cycle and serves the one
\* Wait of its source, so the ticks of the refill tickers (Refill) cannot
\* change what the cycle does and are left out of the next-state relation.
Next ==
    \/ Start
    \/ \E s \in Sources : Spawn(s)
    \/ StartCollect
    \/ CloseResults
    \/ Collect
    \/ CollectEnd
    \/ \E ok \in BOOLEAN : SaveBatch(ok)
    \/ \E ok \in BOOLEAN : SaveOne(ok)
    \/ SaveCheck
    \/ Cancel
    \/ \E s \in Sources : TaskAcquireGate(s)
    \/ \E s \in Sources : TaskGetLimiter(s)
    \/ \E s \in Sources, c \in {"ctx", "token"} : TaskWait(s, c)
    \/ \E s \in Sources : \E b \in FetchBatches(s) : TaskFetch(s, Ok(b))
    \/ \E s \in Sources : \E b \in PartialBatches(s) : TaskFetch(s, Failed(b))
    \/ \E s \in Sources, c \in {"ctx", "timer"} : TaskBackoff(s, c)
    \/ \E s \in Sources : TaskSend(s)
    \/ \E s \in Sources : TaskReleaseGate(s)
    \/ \E s \in Sources : TaskDone(s)

Spec == Init /\ [][Next]_vars


\* The fan-out of more sources than the gate has slots, while the slow
\* sources are still inside FetchJobs: every source is enabled, the signal
\* does not fire, and only the FetchJobs calls of the sources 1..GateReturning
\* have returned (successfully, with no posting).
InitGate ==
    InitWith({c \in Registrations(GateSources) : \A s \in GateSources : c[s].Enabled})

NextGate ==
    \/ Start
    \/ \E s \in Sources : Spawn(s)
    \/ StartCollect
    \/ Collect
    \/ \E s \in Sources : TaskAcquireGate(s)
    \/ \E s \in Sources : TaskGetLimiter(s)
    \/ \E s \in Sources : TaskWait(s, "token")
    \/ \E s \in 1..GateReturning : TaskFetch(s, Ok(<<>>))
    \/ \E s \in Sources : TaskSend(s)
    \/ \E s \in Sources : TaskReleaseGate(s)
    \/ \E s \in Sources : TaskDone(s)

SpecGate == InitGate /\ [][NextGate]_vars


\* The persistence stage on a list longer than one batch: the state in
\* which ScrapeAllSources calls saveJobs after one source (RemoteOK) has
\* returned n records of pairwise different keys, for n around batchSize.
ManyJobs(n) == [k \in 1..n |-> Job(<<ToString(k)>>, <<"c">>, <<"r">>, 1, k)]

SaveSizes == (batchSize - 1)..(batchSize + MaxTail)

InitSave ==
    \E n \in SaveSizes :
        /\ configs = [s \in {1} |-> [Enabled |-> TRUE, RateLimit |-> GetRateLimit(1)]]
        /\ cancelled = FALSE
        /\ mainPc = "save"
        /\ ret = "none"
        /\ enabledSources = {1}
        /\ pc = [s \in {1} |-> "exited"]
        /\ attempt = [s \in {1} |-> 0]
        /\ result = [s \in {1} |-> NoResult]
        /\ resultsChan = <<>>
        /\ closed = TRUE
        /\ wg = 0
        /\ semaphore = 0
        /\ limiters = [s \in {1} |->
                          [limit |-> GetRateLimit(1), tokens |-> GetRateLimit(1) - 1,
                           live |-> TRUE]]
        /\ allJobs = ManyJobs(n)
        /\ seenJobs = {generateJobHash(ManyJobs(n)[k]) : k \in 1..n}
        /\ metrics = [ZeroMetrics EXCEPT
                        !.TotalJobsScraped = n,
                        !.SourcePerformance[1] =
                            [JobsScraped |-> n, Duplicates |-> 0, Errors |-> 0,
                             Timed |-> TRUE]]
        /\ saveI = 0
        /\ saveJ = 0
        /\ savePc = "batch"
        /\ storeCalls = <<>>
        /\ trace = [s \in {1} |->
                       <<"gate", "wait", "token", "fetch_ok", "send", "release",
                         "consumed">>]
        /\ UnitIdle

\* Number of store calls that failed so far.
Faults == Cardinality({k \in 1..Len(storeCalls) : ~storeCalls[k].ok})

\* The store fails at most MaxSaveFaults calls.
MayAnswer(ok) == ok \/ Faults < MaxSaveFaults

NextSave ==
    \/ \E ok \in BOOLEAN : MayAnswer(ok) /\ SaveBatch(ok)
    \/ \E ok \in BOOLEAN : MayAnswer(ok) /\ SaveOne(ok)
    \/ SaveCheck
    \/ Cancel

SpecSave == InitSave /\ [][NextSave]_vars


\* The Deduplicator on its own: a caller passes batches to RemoveDuplicates
\* in any order and may call Reset in between.  The records differ in
\* case, in surrounding blanks and in the place of a '|' character.
DedupTitles == {<<"a">>, <<"A", " ">>, <<"a", "|">>}
DedupCompanies == {<<"c">>, <<"|", "c">>}
DedupJobs == {Job(t, c, <<"r">>, 1, 0) : t \in DedupTitles, c \in DedupCompanies}
DedupBatches == SeqsUpTo(DedupJobs, MaxDedupBatch)

InitDedup == InitWith({<<>>})

\* A direct call of RemoveDuplicates(jobs).
CallRemoveDuplicates(jobs) ==
    /\ Len(ddCalls) < MaxDedupCalls
    /\ LET dd == RemoveDuplicates(jobs, seenJobs)
       IN  /\ seenJobs' = dd[2]
           /\ ddCalls' = Append(ddCalls,
                             [op |-> "RemoveDuplicates", in |-> jobs, out |-> dd[1]])
    /\ UNCHANGED <<configs, cancelled, mainPc, ret, enabledSources, resultsChan,
                   closed, wg, semaphore, limiters, allJobs, metrics>>
    /\ UNCHANGED taskVars
    /\ UNCHANGED limiterVars
    /\ UNCHANGED <<boCall, simCalls, daemonVars>>
    /\ UNCHANGED saveVars

\* A direct call of Reset().
CallReset ==
    /\ Len(ddCalls) < MaxDedupCalls
    /\ seenJobs' = Reset(seenJobs)
    /\ ddCalls' = Append(ddCalls, [op |-> "Reset", in |-> <<>>, out |-> <<>>])
    /\ UNCHANGED <<configs, cancelled, mainPc, ret, enabledSources, resultsChan,
                   closed, wg, semaphore, limiters, allJobs, metrics>>
    /\ UNCHANGED taskVars
    /\ UNCHANGED limiterVars
    /\ UNCHANGED <<boCall, simCalls, daemonVars>>
    /\ UNCHANGED saveVars

NextDedup ==
    \/ \E jobs \in DedupBatches : CallRemoveDuplicates(jobs)
    \/ CallReset

SpecDedup == InitDedup /\ [][NextDedup]_vars

\* The similarity functions of the Deduplicator on their own: a caller
\* passes any two strings to stringSimilarity, or any batch and threshold
\* to FindSimilarJobs, on a Deduplicator whose seen-set may hold digests.
SimStrings ==
    {<<>>, <<" ">>, <<" ", " ">>, <<"a">>, <<"A", " ">>, <<"b">>,
     <<"a", " ", "b">>, <<"b", " ", " ", "a">>, <<"a", " ", "b", " ", "c">>}
SimTitles == {<<"a">>, <<"A", " ">>, <<"a", " ", "b">>}
SimLocations == {<<>>, <<" ">>, <<"r">>}
SimJobs == {Job(t, <<"c">>, l, 1, 0) : t \in SimTitles, l \in SimLocations}
SimBatches == SeqsUpTo(SimJobs, MaxSimBatch)
SimThresholds == {Float(0, 1), Float(3, 4), Float(4, 5), Float(1, 1)}
SimSeeds == {<<Job(<<"a">>, <<"c">>, <<"r">>, 1, 0)>>,
             <<Job(<<"a", " ", "b">>, <<"c">>, <<>>, 1, 0)>>}

InitSimilar == InitWith({<<>>})

\* A direct call of stringSimilarity(s1, s2).
CallStringSimilarity(s1, s2) ==
    /\ Len(simCalls) < MaxSimCalls
    /\ simCalls' = Append(simCalls,
                        [fn |-> "stringSimilarity", args |-> <<s1, s2>>,
                         out |-> stringSimilarity(s1, s2)])
    /\ UNCHANGED <<configs, cancelled, mainPc, ret, enabledSources, resultsChan,
                   closed, wg, semaphore, limiters, allJobs, seenJobs, metrics,
                   ddCalls, boCall>>
    /\ UNCHANGED daemonVars
    /\ UNCHANGED taskVars
    /\ UNCHANGED limiterVars
    /\ UNCHANGED saveVars

\* A direct call of FindSimilarJobs(jobs, threshold).
CallFindSimilarJobs(jobs, threshold) ==
    /\ Len(simCalls) < MaxSimCalls
    /\ simCalls' = Append(simCalls,
                        [fn |-> "FindSimilarJobs", args |-> <<jobs, threshold>>,
                         out |-> FindSimilarJobs(jobs, threshold)])
    /\ UNCHANGED <<configs, cancelled, mainPc, ret, enabledSources, resultsChan,
                   closed, wg, semaphore, limiters, allJobs, seenJobs, metrics,
                   ddCalls, boCall>>
    /\ UNCHANGED daemonVars
    /\ UNCHANGED taskVars
    /\ UNCHANGED limiterVars
    /\ UNCHANGED saveVars

NextSimilar ==
    \/ \E s1 \in SimStrings, s2 \in SimStrings : CallStringSimilarity(s1, s2)
    \/ \E jobs \in SimBatches, threshold \in SimThresholds :
          CallFindSimilarJobs(jobs, threshold)
    \/ \E jobs \in SimSeeds : CallRemoveDuplicates(jobs)

SpecSimilar == InitSimilar /\ [][NextSimilar]_vars

\* The Deduplicator with its lookup: between RemoveDuplicates and Reset
\* calls a caller asks IsDuplicate about records that may differ from the
\* processed ones in source and URL as well as in case and blanks.
ProbeSources == {1, 2}
ProbeURLs == {0, 1}
ProbeJobs ==
    {Job(t, c, <<"r">>, s, u) :
        t \in DedupTitles, c \in DedupCompanies, s \in ProbeSources, u \in ProbeURLs}

\* A direct call of IsDuplicate(job).
CallIsDuplicate(job) ==
    /\ Len(ddCalls) < MaxDedupCalls
    /\ seenJobs' = seenJobs
    /\ ddCalls' = Append(ddCalls,
                      [op |-> "IsDuplicate", in |-> <<job>>,
                       out |-> <<IsDuplicate(job, seenJobs)>>])
    /\ UNCHANGED <<configs, cancelled, mainPc, ret, enabledSources, resultsChan,
                   closed, wg, semaphore, limiters, allJobs, metrics>>
    /\ UNCHANGED taskVars
    /\ UNCHANGED limiterVars
    /\ UNCHANGED <<boCall, simCalls, daemonVars>>
    /\ UNCHANGED saveVars

NextLookup ==
    \/ \E jobs \in DedupBatches : CallRemoveDuplicates(jobs)
    \/ CallReset
    \/ \E job \in ProbeJobs : CallIsDuplicate(job)

SpecLookup == InitDedup /\ [][NextLookup]_vars


\* The RateLimiter on its own: NumCallers goroutines call
\* Wait(ctx, source, requestsPerMinute) on one registered source, each up
\* to MaxWaitCalls times, with small limits, while the ticker of the
\* registered limiter ticks and the signal may fire.
RpmValues == {2, 3}

InitLimiter ==
    InitWith({c \in Registrations({1}) : c[1].Enabled})

\* A limiter object is named by its source and its creation number.
Registered(ref) == ref[2] = rlGen[ref[1]]

\* The limiter object a caller holds.
LimiterOf(ref) == IF Registered(ref) THEN limiters[ref[1]] ELSE rlRetired[ref]

\* Wait is entered.
WaitCall(c, source, requestsPerMinute) ==
    /\ rlCallers[c].pc = "idle"
    /\ rlCallers[c].calls < MaxWaitCalls
    /\ rlCallers' = [rlCallers EXCEPT ![c] =
          [pc |-> "rlock", source |-> source, rpm |-> requestsPerMinute,
           ref |-> <<0, 0>>, calls |-> @.calls + 1, out |-> "none"]]
    /\ UNCHANGED <<configs, cancelled, mainPc, ret, enabledSources, resultsChan,
                   closed, wg, semaphore, limiters, allJobs, seenJobs, metrics>>
    /\ UNCHANGED <<ddCalls, rlGen, rlRetired, rlTicks, rlAcq, boCall, simCalls,
                   daemonVars>>
    /\ UNCHANGED taskVars
    /\ UNCHANGED saveVars

\* getLimiter under the read lock: the registered limiter is returned
\* when its limit is the requested one.
GetLimiterRead(c) ==
    /\ rlCallers[c].pc = "rlock"
    /\ LET source == rlCallers[c].source
       IN  rlCallers' = [rlCallers EXCEPT ![c] =
              IF limiters[source].live /\ limiters[source].limit = rlCallers[c].rpm
              THEN [@ EXCEPT !.pc = "select", !.ref = <<source, rlGen[source]>>]
              ELSE [@ EXCEPT !.pc = "lock"]]
    /\ UNCHANGED <<configs, cancelled, mainPc, ret, enabledSources, resultsChan,
                   closed, wg, semaphore, limiters, allJobs, seenJobs, metrics>>
    /\ UNCHANGED <<ddCalls, rlGen, rlRetired, rlTicks, rlAcq, boCall, simCalls,
                   daemonVars>>
    /\ UNCHANGED taskVars
    /\ UNCHANGED saveVars

\* limiter.refill.Stop() on the limiter that is replaced.
StopNot(l) == l

Stop(l) == [l EXCEPT !.live = FALSE]

\* getLimiter under the write lock: the second look at the registry, and
\* when the limit differs the old ticker is stopped and a new limiter is
\* registered in its place.
GetLimiterWrite(c) ==
    /\ rlCallers[c].pc = "lock"
    /\ LET source == rlCallers[c].source
           after  == getLimiter(limiters, source, rlCallers[c].rpm)
           kept   == limiters[source].live /\ limiters[source].limit = rlCallers[c].rpm
       IN  /\ limiters' = after
           /\ rlGen' = IF kept THEN rlGen ELSE [rlGen EXCEPT ![source] = @ + 1]
           /\ rlRetired' =
                 IF ~kept /\ limiters[source].live
                 THEN (<<source, rlGen[source]>> :> Stop(limiters[source])) @@ rlRetired
                 ELSE rlRetired
           /\ rlTicks' = IF kept THEN rlTicks ELSE [rlTicks EXCEPT ![source] = 0]
           /\ rlAcq' = IF kept THEN rlAcq ELSE [rlAcq EXCEPT ![source] = <<>>]
           /\ rlCallers' = [rlCallers EXCEPT ![c] =
                 [@ EXCEPT !.pc = "select", !.ref = <<source, rlGen'[source]>>]]
    /\ UNCHANGED <<configs, cancelled, mainPc, ret, enabledSources, resultsChan,
                   closed, wg, semaphore, allJobs, seenJobs, metrics, ddCalls, boCall, simCalls,
                   daemonVars>>
    /\ UNCHANGED taskVars
    /\ UNCHANGED saveVars

\* The cases of the select of Wait that are ready for a caller.
SelectReady(c) ==
    {ch \in {"ctx", "token"} :
        \/ ch = "ctx" /\ cancelled
        \/ ch = "token" /\ LimiterOf(rlCallers[c].ref).tokens > 0}

\* The select of Wait: ctx.Err() or nil is returned.
WaitSelect(c, choice) ==
    /\ rlCallers[c].pc = "select"
    /\ choice \in SelectReady(c)
    /\ LET ref == rlCallers[c].ref
       IN  IF choice = "token"
           THEN IF Registered(ref)
                THEN /\ limiters' = [limiters EXCEPT ![ref[1]].tokens = @ - 1]
                     /\ rlAcq' = [rlAcq EXCEPT ![ref[1]] = Append(@, rlTicks[ref[1]])]
                     /\ rlRetired' = rlRetired
                ELSE /\ rlRetired' = [rlRetired EXCEPT ![ref].tokens = @ - 1]
                     /\ UNCHANGED <<limiters, rlAcq>>
           ELSE UNCHANGED <<limiters, rlAcq, rlRetired>>
    /\ rlCallers' = [rlCallers EXCEPT ![c] =
          [@ EXCEPT !.pc = "idle", !.out = IF choice = "token" THEN "nil" ELSE "ctx"]]
    /\ UNCHANGED <<configs, cancelled, mainPc, ret, enabledSources, resultsChan,
                   closed, wg, semaphore, allJobs, seenJobs, metrics, ddCalls, rlGen,
                   rlTicks, boCall, simCalls,
                   daemonVars>>
    /\ UNCHANGED taskVars
    /\ UNCHANGED saveVars

NextLimiter ==
    \/ \E c \in Callers, s \in Sources, n \in RpmValues : WaitCall(c, s, n)
    \/ \E c \in Callers : GetLimiterRead(c)
    \/ \E c \in Callers : GetLimiterWrite(c)
    \/ \E c \in Callers, ch \in {"ctx", "token"} : WaitSelect(c, ch)
    \/ \E s \in Sources : Refill(s)
    \/ Cancel

SpecLimiter == InitLimiter /\ [][NextLimiter]_vars

\* The RateLimiter with two registered sources: the callers of Wait name
\* either source, with limits small enough for a pool to run empty.
PoolSources == {1, 2}
PoolRpmValues == {1, 2}

InitPools ==
    InitWith({c \in Registrations(PoolSources) : \A s \in PoolSources : c[s].Enabled})

NextPools ==
    \/ \E c \in Callers, s \in Sources, n \in PoolRpmValues : WaitCall(c, s, n)
    \/ \E c \in Callers : GetLimiterRead(c)
    \/ \E c \in Callers : GetLimiterWrite(c)
    \/ \E c \in Callers, ch \in {"ctx", "token"} : WaitSelect(c, ch)
    \/ \E s \in Sources : Refill(s)
    \/ Cancel

SpecPools == InitPools /\ [][NextPools]_vars


\* calculateBackoffDelay on its own: a caller passes any attempt number up
\* to MaxAttempt (scrapeSource passes 1..MaxRetries).
InitBackoff == InitWith({<<>>})

CallCalculateBackoffDelay(n) ==
    /\ boCall' = [attempt |-> n, delay |-> calculateBackoffDelay(n)]
    /\ simCalls' = simCalls
    /\ UNCHANGED daemonVars
    /\ UNCHANGED <<configs, cancelled, mainPc, ret, enabledSources, resultsChan,
                   closed, wg, semaphore, limiters, allJobs, seenJobs, metrics, ddCalls>>
    /\ UNCHANGED limiterVars
    /\ UNCHANGED taskVars
    /\ UNCHANGED saveVars

NextBackoff == \E n \in 0..MaxAttempt : CallCalculateBackoffDelay(n)

SpecBackoff == InitBackoff /\ [][NextBackoff]_vars


\* A cycle in which every source succeeds (at once or after failed
\* attempts), the store accepts every batch and the signal does not fire.
\* Three sources are registered, each enabled or not; what each returns is
\* fixed: source 1 returns three records, two of them of one key; source 2
\* two records; source 3 three records, one of a key of source 2.
CleanSources == {1, 2, 3}

Posting(t, s, url) == Job(<<t>>, <<"c">>, <<"r">>, s, url)

CleanBatch(s) ==
    IF s = 1 THEN <<Posting("a", 1, 1), Posting("b", 1, 2), Posting("a", 1, 3)>>
    ELSE IF s = 2 THEN <<Posting("c", 2, 1), Posting("d", 2, 2)>>
    ELSE <<Posting("C", 3, 1), Posting("e", 3, 2), Posting("f", 3, 3)>>

InitClean == InitWith(Registrations(CleanSources))

NextClean ==
    \/ Start
    \/ \E s \in Sources : Spawn(s)
    \/ StartCollect
    \/ CloseResults
    \/ Collect
    \/ CollectEnd
    \/ SaveBatch(TRUE)
    \/ SaveCheck
    \/ \E s \in Sources : TaskAcquireGate(s)
    \/ \E s \in Sources : TaskGetLimiter(s)
    \/ \E s \in Sources : TaskWait(s, "token")
    \/ \E s \in Sources : TaskFetch(s, Ok(CleanBatch(s)))
    \/ \E s \in Sources : attempt[s] < MaxRetries /\ TaskFetch(s, Failed(<<>>))
    \/ \E s \in Sources : TaskBackoff(s, "timer")
    \/ \E s \in Sources : TaskSend(s)
    \/ \E s \in Sources : TaskReleaseGate(s)
    \/ \E s \in Sources : TaskDone(s)

SpecClean == InitClean /\ [][NextClean]_vars

\* The daemon: main starts the periodic goroutine, runs the initial cycle,
\* waits for a signal, cancels and joins.  A call of ScrapeAllSources is
\* entered and left in two steps; what happens inside is the subject of
\* the cycle specification and left out here.
Intervals == {0, 1}

daemonFrame ==
    /\ UNCHANGED <<configs, mainPc, ret, enabledSources, resultsChan, closed, wg,
                   semaphore, limiters, allJobs, seenJobs, metrics, ddCalls, boCall,
                   simCalls, cycleLog, ddMu, ddRun>>
    /\ UNCHANGED taskVars
    /\ UNCHANGED limiterVars
    /\ UNCHANGED saveVars

\* main up to the start of the background goroutine.
MainBoot(interval) ==
    /\ mainAt = "boot"
    /\ ScrapingInterval' = interval
    /\ periodicAt' = IF interval > 0 THEN "select" ELSE "absent"
    /\ mainAt' = "initial"
    /\ UNCHANGED <<cancelled, tickerC, ticks, sigChan, scraperDone>>
    /\ daemonFrame

\* main enters powerScraper.ScrapeAllSources(ctx) for the initial cycle.
MainInitialBegin ==
    /\ mainAt = "initial"
    /\ mainAt' = "scraping"
    /\ UNCHANGED <<cancelled, periodicAt, ScrapingInterval, tickerC, ticks, sigChan,
                   scraperDone>>
    /\ daemonFrame

\* The initial ScrapeAllSources call returns.
MainInitialEnd ==
    /\ mainAt = "scraping"
    /\ mainAt' = "waiting"
    /\ UNCHANGED <<cancelled, periodicAt, ScrapingInterval, tickerC, ticks, sigChan,
                   scraperDone>>
    /\ daemonFrame

\* The cases of main's select that are ready.
MainSelectReady ==
    {"sig" : x \in {1} \cap {sigChan}} \cup {"ctx" : x \in {TRUE} \cap {cancelled}}

\* main's select returns by one of its ready cases, then main cancels.
MainShutdown(choice) ==
    /\ mainAt = "waiting"
    /\ choice \in MainSelectReady
    /\ sigChan' = IF choice = "sig" THEN 0 ELSE sigChan
    /\ cancelled' = TRUE
    /\ mainAt' = "joining"
    /\ UNCHANGED <<periodicAt, ScrapingInterval, tickerC, ticks, scraperDone>>
    /\ daemonFrame

\* main waits for the periodic goroutine, when there is one, and returns.
MainJoin ==
    /\ mainAt = "joining"
    /\ ScrapingInterval > 0 => scraperDone
    /\ mainAt' = "exited"
    /\ UNCHANGED <<cancelled, periodicAt, ScrapingInterval, tickerC, ticks, sigChan,
                   scraperDone>>
    /\ daemonFrame

\* SIGINT or SIGTERM arrives; a signal that finds sigChan full is dropped.
Signal ==
    /\ mainAt # "boot"
    /\ sigChan = 0
    /\ sigChan' = 1
    /\ UNCHANGED <<cancelled, mainAt, periodicAt, ScrapingInterval, tickerC, ticks,
                   scraperDone>>
    /\ daemonFrame

\* The periodic ticker fires; a tick that finds ticker.C full is dropped.
Tick ==
    /\ periodicAt \in {"select", "scraping"}
    /\ ticks < MaxDaemonTicks
    /\ ticks' = ticks + 1
    /\ tickerC' = 1
    /\ UNCHANGED <<cancelled, mainAt, periodicAt, ScrapingInterval, sigChan,
                   scraperDone>>
    /\ daemonFrame

\* The cases of runPeriodicScraping's select that are ready.
PeriodicSelectReady ==
    {"done" : x \in {TRUE} \cap {cancelled}} \cup {"tick" : x \in {1} \cap {tickerC}}

\* runPeriodicScraping's select returns by one of its ready cases: it
\* either returns, closing scraperDone, or enters ScrapeAllSources(ctx).
PeriodicSelect(choice) ==
    /\ periodicAt = "select"
    /\ choice \in PeriodicSelectReady
    /\ IF choice = "done"
       THEN /\ periodicAt' = "stopped"
            /\ scraperDone' = TRUE
            /\ tickerC' = tickerC
       ELSE /\ periodicAt' = "scraping"
            /\ scraperDone' = scraperDone
            /\ tickerC' = 0
    /\ UNCHANGED <<cancelled, mainAt, ScrapingInterval, ticks, sigChan>>
    /\ daemonFrame

\* A scheduled ScrapeAllSources call returns; the loop selects again.
PeriodicCycleEnd ==
    /\ periodicAt = "scraping"
    /\ periodicAt' = "select"
    /\ UNCHANGED <<cancelled, mainAt, ScrapingInterval, tickerC, ticks, sigChan,
                   scraperDone>>
    /\ daemonFrame

NextDaemon ==
    \/ \E interval \in Intervals : MainBoot(interval)
    \/ MainInitialBegin
    \/ MainInitialEnd
    \/ \E choice \in {"sig", "ctx"} : MainShutdown(choice)
    \/ MainJoin
    \/ Signal
    \/ Tick
    \/ \E choice \in {"done", "tick"} : PeriodicSelect(choice)
    \/ PeriodicCycleEnd

InitDaemon == InitWith({<<>>})

SpecDaemon == InitDaemon /\ [][NextDaemon]_vars

\* Cycle after cycle on one orchestrator: when ScrapeAllSources has
\* returned, its caller calls it again.  Two sources are registered, each
\* enabled or not; a fetch fails or returns the batch fixed for the source
\* and the cycle, the store accepts every batch and the signal does not
\* fire.  In the first cycle source 1 returns two records and source 2 one
\* of them again; in the second cycle source 1 returns a new record and
\* source 2 a record of the first cycle.
RepeatSources == {1, 2}

\* The number of the cycle that is running or has just returned.
CycleNumber == Len(cycleLog) + 1

RepeatBatch(s, k) ==
    IF k = 1
    THEN IF s = 1 THEN <<Posting("a", 1, 1), Posting("b", 1, 2)>>
         ELSE <<Posting("b", 2, 1)>>
    ELSE IF s = 1 THEN <<Posting("c", 1, 3)>>
         ELSE <<Posting("a", 2, 2)>>

\* An event of the run of task s in the current cycle.
Happened(s, ev) == \E i \in 1..Len(trace[s]) : trace[s][i] = ev

\* The records of the successful results the collection loop consumed.
RECURSIVE FetchedBy(_)
FetchedBy(S) ==
    IF S = {} THEN 0
    ELSE LET s == CHOOSE x \in S : TRUE
         IN  (IF Happened(s, "consumed") /\ Happened(s, "fetch_ok")
              THEN Len(RepeatBatch(s, CycleNumber)) ELSE 0) + FetchedBy(S \ {s})

\* The records of the store calls 1..n that the store accepted.
RECURSIVE AcceptedUpTo(_)
AcceptedUpTo(n) ==
    IF n = 0 THEN 0
    ELSE (IF storeCalls[n].ok THEN Len(storeCalls[n].jobs) ELSE 0) + AcceptedUpTo(n - 1)

\* What the cycle that has just returned amounted to.
CycleAmounts ==
    [fetched    |-> FetchedBy(Sources),
     saved      |-> AcceptedUpTo(Len(storeCalls)),
     duplicates |-> FetchedBy(Sources) - Len(allJobs),
     errors     |-> Cardinality({s \in Sources :
                        Happened(s, "consumed") /\ ~Happened(s, "fetch_ok")})]

\* ScrapeAllSources has returned and is called again: the locals of the
\* call are fresh; the metrics, the seen-set, the limiters and the registry
\* belong to the PowerScraper and stay.
CallAgain ==
    /\ mainPc = "done"
    /\ CycleNumber < MaxCycles
    /\ cycleLog' = Append(cycleLog, CycleAmounts)
    /\ mainPc' = "idle"
    /\ ret' = "none"
    /\ enabledSources' = {}
    /\ pc' = [s \in Sources |-> "unspawned"]
    /\ attempt' = [s \in Sources |-> 0]
    /\ result' = [s \in Sources |-> NoResult]
    /\ trace' = [s \in Sources |-> <<>>]
    /\ resultsChan' = <<>>
    /\ closed' = FALSE
    /\ wg' = 0
    /\ semaphore' = 0
    /\ allJobs' = <<>>
    /\ saveI' = 0
    /\ saveJ' = 0
    /\ savePc' = "none"
    /\ storeCalls' = <<>>
    /\ UNCHANGED <<configs, cancelled, limiters, seenJobs, metrics>>
    /\ UNCHANGED <<ddCalls, boCall, simCalls, mainAt, periodicAt, ScrapingInterval,
                   tickerC, ticks, sigChan, scraperDone, ddMu, ddRun>>
    /\ UNCHANGED limiterVars

InitCycles == InitWith(Registrations(RepeatSources))

NextCycles ==
    \/ Start
    \/ \E s \in Sources : Spawn(s)
    \/ StartCollect
    \/ CloseResults
    \/ Collect
    \/ CollectEnd
    \/ SaveBatch(TRUE)
    \/ SaveCheck
    \/ \E s \in Sources : TaskAcquireGate(s)
    \/ \E s \in Sources : TaskGetLimiter(s)
    \/ \E s \in Sources : TaskWait(s, "token")
    \/ \E s \in Sources : TaskFetch(s, Ok(RepeatBatch(s, CycleNumber)))
    \/ \E s \in Sources : TaskFetch(s, Failed(<<>>))
    \/ \E s \in Sources : TaskBackoff(s, "timer")
    \/ \E s \in Sources : TaskSend(s)
    \/ \E s \in Sources : TaskReleaseGate(s)
    \/ \E s \in Sources : TaskDone(s)
    \/ CallAgain

SpecCycles == InitCycles /\ [][NextCycles]_vars

\* One cycle under the scheduling the runtime gives: every goroutine that
\* can take a step takes one, every FetchJobs and store call returns,
\* every timer and every ticker of a live limiter fires.  The orchestrator
\* has run before: a source has no limiter yet or one whose tokens the
\* earlier cycles, which found no posting, have used up.  Nothing is
\* assumed about the signal.  The FetchJobs calls of the sources up to
\* FailingSources may fail, the pools of the others may be empty.
FailingSources == 1

DrainedLimiters ==
    {l \in [Sources -> [limit : {0, 60, 100}, tokens : {0}, live : BOOLEAN]] :
        \A s \in Sources :
            \/ l[s] = NoLimiter
            \/ s > FailingSources /\ l[s].live /\ l[s].limit = configs[s].RateLimit}

InitLive ==
    /\ configs \in Registrations(CycleSources)
    /\ cancelled = FALSE
    /\ mainPc = "idle"
    /\ ret = "none"
    /\ enabledSources = {}
    /\ pc = [s \in Sources |-> "unspawned"]
    /\ attempt = [s \in Sources |-> 0]
    /\ result = [s \in Sources |-> NoResult]
    /\ resultsChan = <<>>
    /\ closed = FALSE
    /\ wg = 0
    /\ semaphore = 0
    /\ limiters \in DrainedLimiters
    /\ allJobs = <<>>
    /\ seenJobs = {}
    /\ metrics = [ZeroMetrics EXCEPT !.SourcePerformance =
                     [s \in Sources |-> [ZeroSourceMetrics EXCEPT !.Timed = limiters[s].live]]]
    /\ saveI = 0
    /\ saveJ = 0
    /\ savePc = "none"
    /\ storeCalls = <<>>
    /\ trace = [s \in Sources |-> <<>>]
    /\ UnitIdle

\* The steps of the goroutine of source s.
TaskStep(s) ==
    \/ TaskAcquireGate(s)
    \/ TaskGetLimiter(s)
    \/ \E c \in {"ctx", "token"} : TaskWait(s, c)
    \/ TaskFetch(s, Ok(RepeatBatch(s, 1)))
    \/ s <= FailingSources /\ TaskFetch(s, Failed(<<>>))
    \/ \E c \in {"ctx", "timer"} : TaskBackoff(s, c)
    \/ TaskSend(s)
    \/ TaskReleaseGate(s)
    \/ TaskDone(s)

\* The steps of the goroutine that called ScrapeAllSources.
MainStep ==
    \/ Start
    \/ \E s \in Sources : Spawn(s)
    \/ StartCollect
    \/ Collect
    \/ CollectEnd
    \/ \E ok \in BOOLEAN : SaveBatch(ok)
    \/ \E ok \in BOOLEAN : SaveOne(ok)
    \/ SaveCheck

\* The ticks that matter to the cycle: those that find the pool empty (a
\* tick on a pool that holds a token leaves every Wait as able to go on
\* as before).
RefillEmpty(s) == limiters[s].tokens = 0 /\ Refill(s)

NextLive ==
    \/ MainStep
    \/ CloseResults
    \/ \E s \in Sources : TaskStep(s)
    \/ \E s \in Sources : RefillEmpty(s)
    \/ Cancel

Fairness ==
    /\ WF_vars(MainStep)
    /\ WF_vars(CloseResults)
    /\ \A s \in CycleSources : WF_vars(TaskStep(s))
    /\ \A s \in CycleSources : WF_vars(RefillEmpty(s))

SpecLive == InitLive /\ [][NextLive]_vars /\ Fairness

\* The Deduplicator called from several goroutines at once: each of the
\* Callers calls RemoveDuplicates or IsDuplicate, up to MaxAtomicCalls
\* times, and the goroutines are interleaved at every statement; a map
\* lookup and a map store are separate steps.
AtomicJobs == {Job(<<"a">>, <<"c">>, <<"r">>, 1, 1), Job(<<"A", " ">>, <<"c">>, <<"r">>, 2, 2),
               Job(<<"b">>, <<"c">>, <<"r">>, 1, 3)}
AtomicBatches ==
    {<<Job(<<"a">>, <<"c">>, <<"r">>, 1, 1)>>,
     <<Job(<<"b">>, <<"c">>, <<"r">>, 1, 3), Job(<<"A", " ">>, <<"c">>, <<"r">>, 2, 2)>>}
AtomicProbes == {Job(<<"A", " ">>, <<"c">>, <<"r">>, 2, 2)}

ddFrame ==
    /\ UNCHANGED <<configs, cancelled, mainPc, ret, enabledSources, resultsChan,
                   closed, wg, semaphore, limiters, allJobs, metrics>>
    /\ UNCHANGED taskVars
    /\ UNCHANGED limiterVars
    /\ UNCHANGED <<boCall, simCalls, mainAt, periodicAt, ScrapingInterval, tickerC,
                   ticks, sigChan, scraperDone, cycleLog>>
    /\ UNCHANGED saveVars

\* A Deduplicator whose methods take no lock.
LockFreeAlways(mu) == TRUE

\* d.mu.Lock() can return: no writer and no reader holds the mutex.
LockFree(mu) == mu.writer = 0 /\ mu.readers = {}

\* d.mu.RLock() can return: no writer holds the mutex.
RLockFree(mu) == mu.writer = 0

\* A goroutine enters RemoveDuplicates(jobs) or IsDuplicate(job); began
\* is the number of calls that had returned by then.
Enter(c, op, jobs) ==
    /\ ddRun[c].pc = "idle"
    /\ ddRun[c].calls < MaxAtomicCalls
    /\ ddRun' = [ddRun EXCEPT ![c] =
          [op |-> op, pc |-> "lock", jobs |-> jobs, i |-> 1, seen |-> FALSE,
           out |-> <<>>, calls |-> @.calls + 1, began |-> Len(ddCalls)]]
    /\ UNCHANGED <<seenJobs, ddCalls, ddMu>>
    /\ ddFrame

\* d.mu.Lock() of RemoveDuplicates
Lock(c) ==
    /\ ddRun[c].pc = "lock" /\ ddRun[c].op = "RemoveDuplicates"
    /\ LockFree(ddMu)
    /\ ddMu' = [ddMu EXCEPT !.writer = c]
    /\ ddRun' = [ddRun EXCEPT ![c].pc = "lookup"]
    /\ UNCHANGED <<seenJobs, ddCalls>>
    /\ ddFrame

\* for _, job := range jobs { hash := ...; if !d.seenJobs[hash]: the lookup
LoopLookup(c) ==
    /\ ddRun[c].pc = "lookup" /\ ddRun[c].op = "RemoveDuplicates"
    /\ ddRun' = [ddRun EXCEPT ![c] =
          IF @.i > Len(@.jobs)
          THEN [@ EXCEPT !.pc = "unlock"]
          ELSE [@ EXCEPT !.pc = "store",
                         !.seen = generateJobHash(ddRun[c].jobs[ddRun[c].i])
                                      \in seenJobs]]
    /\ UNCHANGED <<seenJobs, ddCalls, ddMu>>
    /\ ddFrame

\* d.seenJobs[hash] = true; uniqueJobs = append(uniqueJobs, job)
LoopStore(c) ==
    /\ ddRun[c].pc = "store"
    /\ LET job == ddRun[c].jobs[ddRun[c].i]
       IN  /\ seenJobs' = IF ddRun[c].seen THEN seenJobs
                          ELSE seenJobs \cup {generateJobHash(job)}
           /\ ddRun' = [ddRun EXCEPT ![c] =
                 [@ EXCEPT !.pc = "lookup", !.i = @ + 1,
                           !.out = IF ddRun[c].seen THEN @ ELSE Append(@, job)]]
    /\ UNCHANGED <<ddCalls, ddMu>>
    /\ ddFrame

\* return uniqueJobs, with the deferred d.mu.Unlock()
Unlock(c) ==
    /\ ddRun[c].pc = "unlock"
    /\ ddMu' = [ddMu EXCEPT !.writer = IF @ = c THEN 0 ELSE @]
    /\ ddCalls' = Append(ddCalls, [op |-> "RemoveDuplicates", in |-> ddRun[c].jobs,
                                   out |-> ddRun[c].out])
    /\ ddRun' = [ddRun EXCEPT ![c].pc = "idle"]
    /\ UNCHANGED seenJobs
    /\ ddFrame

\* d.mu.RLock() of IsDuplicate
RLock(c) ==
    /\ ddRun[c].pc = "lock" /\ ddRun[c].op = "IsDuplicate"
    /\ RLockFree(ddMu)
    /\ ddMu' = [ddMu EXCEPT !.readers = @ \cup {c}]
    /\ ddRun' = [ddRun EXCEPT ![c].pc = "read"]
    /\ UNCHANGED <<seenJobs, ddCalls>>
    /\ ddFrame

\* return d.seenJobs[hash], with the deferred d.mu.RUnlock()
ReadAndRUnlock(c) ==
    /\ ddRun[c].pc = "read"
    /\ ddMu' = [ddMu EXCEPT !.readers = @ \ {c}]
    /\ ddCalls' = Append(ddCalls, [op |-> "IsDuplicate", in |-> ddRun[c].jobs,
                                   out |-> <<IsDuplicate(ddRun[c].jobs[1], seenJobs)>>])
    /\ ddRun' = [ddRun EXCEPT ![c].pc = "idle"]
    /\ UNCHANGED seenJobs
    /\ ddFrame

InitAtomic == InitWith({<<>>})

NextAtomic ==
    \/ \E c \in Callers, jobs \in AtomicBatches : Enter(c, "RemoveDuplicates", jobs)
    \/ \E c \in Callers, job \in AtomicProbes : Enter(c, "IsDuplicate", <<job>>)
    \/ \E c \in Callers : Lock(c)
    \/ \E c \in Callers : LoopLookup(c)
    \/ \E c \in Callers : LoopStore(c)
    \/ \E c \in Callers : Unlock(c)
    \/ \E c \in Callers : RLock(c)
    \/ \E c \in Callers : ReadAndRUnlock(c)

SpecAtomic == InitAtomic /\ [][NextAtomic]_vars


\* ------------------------------------------------------------- claims
\* Helpers over the per-task event traces.
Count(seq, ev) == Cardinality({i \in 1..Len(seq) : seq[i] = ev})

IsFetch(ev) == ev \in {"fetch_ok", "fetch_fail"}

FetchEvents(s) == SelectSeq(trace[s], IsFetch)

\* The tasks that hold a slot of the gate: past the semaphore send and
\* not yet past the deferred receive.
Holders ==
    {s \in Sources : pc[s] \in {"limiter", "wait", "fetch", "backoff", "send", "release"}}

\* The results of source s that are in the channel.
InChan(s) == {k \in 1..Len(resultsChan) : resultsChan[k].Source = s}

\* C1: at every moment at most GateSize (5) tasks hold the concurrency
\* gate, the semaphore counts exactly the holders, and while all slots
\* are held no waiting task can pass the gate.
C1_GateBound ==
    /\ Cardinality(Holders) <= GateSize
    /\ semaphore = Cardinality(Holders)
    /\ Cardinality(Holders) = GateSize =>
          \A s \in Sources : ~ENABLED TaskAcquireGate(s)

\* C1 witness: all five slots are held while another task waits at the
\* gate and a third one has already given its slot back.
C1_Witness ==
    /\ Cardinality(Holders) = GateSize
    /\ \E s \in Sources : pc[s] = "gate"
    /\ \E s \in Sources : pc[s] \in {"wgdone", "exited"}

\* C2: persistence never starts before every fan-out task has finished
\* and its result has been consumed; every enabled source produces exactly
\* one result, consumed exactly once (and never before it was produced);
\* a source that is not enabled produces none.
C2_DrainBeforeSave ==
    /\ \A s \in Sources :
          /\ Count(trace[s], "send") <= 1
          /\ Count(trace[s], "consumed") + Cardinality(InChan(s)) = Count(trace[s], "send")
          /\ s \notin GetEnabledSources => trace[s] = <<>>
    /\ (mainPc = "save" \/ storeCalls # <<>> \/ ret = "nil") =>
          \A s \in GetEnabledSources :
              /\ pc[s] = "exited"
              /\ Count(trace[s], "send") = 1
              /\ Count(trace[s], "consumed") = 1

\* C2 witness: the store has been called in a cycle of two enabled sources.
C2_Witness ==
    /\ storeCalls # <<>>
    /\ Cardinality(GetEnabledSources) = 2

\* C3: within one task FetchJobs is called at most MaxRetries+1 (4) times,
\* and every call but the last one failed: a retry follows only a failed
\* call and nothing follows a successful one.
C3_RetryBound ==
    \A s \in Sources :
        LET calls == FetchEvents(s)
        IN  /\ Len(calls) <= MaxRetries + 1
            /\ \A i \in 1..(Len(calls) - 1) : calls[i] = "fetch_fail"

\* C3 witness: a task whose fourth call succeeded after three failures,
\* beside a task that used up its four calls.
C3_Witness ==
    /\ \E s \in Sources :
          FetchEvents(s) = <<"fetch_fail", "fetch_fail", "fetch_fail", "fetch_ok">>
    /\ \E s \in Sources :
          FetchEvents(s) = <<"fetch_fail", "fetch_fail", "fetch_fail", "fetch_fail">>

\* C4: when the signal fires while a task is in a retry backoff wait, the
\* task makes no further fetch attempt, leaves the wait through the
\* cancellation case, and the error of its result is the cancellation
\* error (not the error of the failed fetch).
C4_BackoffCancel ==
    \A s \in Sources :
        \A i \in 1..Len(trace[s]) :
            trace[s][i] = "cancel" =>
                /\ \A j \in (i + 1)..Len(trace[s]) : ~IsFetch(trace[s][j])
                /\ i < Len(trace[s]) => trace[s][i + 1] = "backoff_ctx"
                /\ pc[s] # "fetch"
                /\ pc[s] = "send" => result[s].Error = "ctx"
                /\ \A k \in InChan(s) : resultsChan[k].Error = "ctx"

\* C4 witness: the signal fired during the wait before the third retry
\* and the task's result has reached the channel.
C4_Witness ==
    \E s \in Sources :
        /\ Count(trace[s], "cancel") = 1
        /\ Count(trace[s], "fetch_fail") = 3
        /\ InChan(s) # {}

\* C5: a task calls Wait once and takes at most one token, before its
\* first fetch attempt and never again before a retry (the pool of its
\* limiter is never short of more than the tokens the task took); when
\* Wait returns cancelled, the task ends with an error and never calls
\* FetchJobs.
C5_AcquireOnce ==
    \A s \in Sources :
        LET tr == trace[s]
        IN  /\ Count(tr, "wait") <= 1
            /\ Count(tr, "token") + Count(tr, "wait_ctx") <= Count(tr, "wait")
            /\ limiters[s].live =>
                  /\ limiters[s].tokens >= limiters[s].limit - Count(tr, "token")
                  /\ limiters[s].tokens <= limiters[s].limit
            /\ \A i \in 1..Len(tr) :
                  IsFetch(tr[i]) => \E j \in 1..(i - 1) : tr[j] = "token"
            /\ Count(tr, "wait_ctx") = 1 =>
                  /\ FetchEvents(s) = <<>>
                  /\ pc[s] \notin {"fetch", "backoff"}
                  /\ pc[s] = "send" => result[s].Error = "ratelimit"
                  /\ \A k \in InChan(s) : resultsChan[k].Error = "ratelimit"

\* C5 witness: one task retried after its single acquisition, another
\* task had its acquisition cancelled and delivered its result.
C5_Witness ==
    /\ \E s \in Sources : Len(FetchEvents(s)) >= 2 /\ Count(trace[s], "token") = 1
    /\ \E s \in Sources : Count(trace[s], "wait_ctx") = 1 /\ InChan(s) # {}


\* The task of source s got records from a successful FetchJobs call.
Succeeded(s) == Count(trace[s], "fetch_ok") = 1

\* The result of source s was consumed and carried an error.
FailedSource(s) == Count(trace[s], "consumed") = 1 /\ ~Succeeded(s)

Submitted(job) ==
    \E c \in 1..Len(storeCalls) :
        \E i \in 1..Len(storeCalls[c].jobs) : storeCalls[c].jobs[i] = job

\* C6, the state part: the merged list and the store hold records of
\* successful sources only; per-source failures never make the cycle
\* return an error (an error return means no enabled source, or the signal
\* fired); on a nil return every task has finished and every merged record
\* has been submitted to the store.
C6_State ==
    /\ \A k \in 1..Len(allJobs) : Succeeded(allJobs[k].Source)
    /\ \A c \in 1..Len(storeCalls) :
          \A i \in 1..Len(storeCalls[c].jobs) :
              \E k \in 1..Len(allJobs) : allJobs[k] = storeCalls[c].jobs[i]
    /\ ret = "no_enabled_sources" => GetEnabledSources = {}
    /\ ret = "failed_to_save_jobs_ctx" => cancelled
    /\ (mainPc = "done" /\ GetEnabledSources # {} /\ ~cancelled) => ret = "nil"
    /\ ret = "nil" =>
          /\ \A s \in GetEnabledSources : pc[s] = "exited"
          /\ \A k \in 1..Len(allJobs) : Submitted(allJobs[k])

\* C6, the step part: consuming a result that carries an error changes
\* neither the merged list nor the seen-set; consuming a successful result
\* leaves a record of each of its keys in the merged list.
C6_Step ==
    (resultsChan # <<>> /\ resultsChan' = Tail(resultsChan)) =>
        LET res == Head(resultsChan)
        IN  IF res.Error # "nil"
            THEN allJobs' = allJobs /\ seenJobs' = seenJobs
            ELSE \A i \in 1..Len(res.Jobs) :
                    \E k \in 1..Len(allJobs') :
                        generateJobHash(allJobs'[k]) = generateJobHash(res.Jobs[i])

\* C6: a source whose task ends with a terminal error contributes no
\* record to the merged set or to the store, the other sources' tasks
\* finish and their unique records are submitted, and the cycle returns no
\* error on account of per-source failures.
C6_FailureIsolation == [][C6_Step /\ C6_State']_vars

\* C6 witness: the cycle returned nil after one source used up its four
\* attempts (its last failing call returned a record beside the error)
\* and the other source's records were submitted.
C6_Witness ==
    /\ ret = "nil"
    /\ \E s \in Sources : Count(trace[s], "fetch_fail") = MaxRetries + 1
    /\ \E s \in Sources : Succeeded(s) /\ \E k \in 1..Len(allJobs) : allJobs[k].Source = s
    /\ storeCalls # <<>>

\* C7 (as claimed): once the result of a failed task has been consumed,
\* the source's Errors counter is 1 and TotalErrors counts the failed
\* sources, whatever the cause of the terminal error.
C7_EveryErrorCounted ==
    /\ \A s \in Sources : FailedSource(s) => metrics.SourcePerformance[s].Errors = 1
    /\ metrics.TotalErrors = Cardinality({s \in Sources : FailedSource(s)})

\* C8: with no enabled source the cycle returns its error at its first
\* step: no task is started, no limiter is created, no token is taken, no
\* fetch and no store call is made, and the counters are untouched.
C8_NoEnabledSources ==
    ((\A s \in Sources : ~configs[s].Enabled) /\ mainPc # "idle") =>
        /\ mainPc = "done"
        /\ ret = "no_enabled_sources"
        /\ wg = 0
        /\ semaphore = 0
        /\ resultsChan = <<>>
        /\ storeCalls = <<>>
        /\ metrics = ZeroMetrics
        /\ \A s \in Sources :
              pc[s] = "unspawned" /\ trace[s] = <<>> /\ limiters[s] = NoLimiter

\* C8 witness: a cycle over two registered, disabled sources has returned.
C8_Witness ==
    /\ ret = "no_enabled_sources"
    /\ Cardinality(Sources) = NumSources
    /\ GetEnabledSources = {}

\* C9 (as claimed): when the cycle is over and every store call failed
\* (every batch submission and every individual fallback save), the cycle
\* returned an error.
C9_FailedPersistenceIsError ==
    (mainPc = "done" /\ storeCalls # <<>> /\ \A c \in 1..Len(storeCalls) : ~storeCalls[c].ok)
        => ret \notin {"nil", "none"}

\* The positions of the SaveJobs calls in the call log.
BatchCalls == {p \in 1..Len(storeCalls) : storeCalls[p].op = "SaveJobs"}

\* The SaveJobs call that position p of the call log belongs to.
Owner(p) == CHOOSE q \in BatchCalls : q <= p /\ \A r \in BatchCalls : r <= p => r <= q

\* C10: after a failed SaveJobs call every record of that batch is
\* submitted with SaveJob, in batch order, whatever the individual calls
\* return; SaveJob is called in no other place; the k-th SaveJobs call
\* carries the k-th batch of the list, and when saveJobs returns nil every
\* batch was submitted.
C10_Fallback ==
    /\ storeCalls # <<>> => 1 \in BatchCalls
    /\ \A p \in (1..Len(storeCalls)) \ BatchCalls :
          LET q == Owner(p)
          IN  /\ ~storeCalls[q].ok
              /\ p - q <= Len(storeCalls[q].jobs)
              /\ storeCalls[p].jobs = <<storeCalls[q].jobs[p - q]>>
    /\ \A q \in BatchCalls :
          /\ storeCalls[q].jobs =
                Batch(allJobs, batchSize * Cardinality({r \in BatchCalls : r < q}))
          /\ (~storeCalls[q].ok /\ ((\E r \in BatchCalls : r > q) \/ savePc # "fallback")) =>
                \A k \in 1..Len(storeCalls[q].jobs) :
                    /\ q + k <= Len(storeCalls)
                    /\ storeCalls[q + k].op = "SaveJob"
    /\ ret = "nil" => Cardinality(BatchCalls) * batchSize >= Len(allJobs)

\* C10 witness: the first batch failed, an individual save in the middle
\* of its fallback failed, and the second batch has been submitted.
C10_Witness ==
    /\ Len(storeCalls) > batchSize
    /\ ~storeCalls[1].ok
    /\ \E p \in 2..(batchSize - 1) : storeCalls[p].op = "SaveJob" /\ ~storeCalls[p].ok
    /\ \E r \in BatchCalls : r > 1

\* C11, the step part: when the check at the end of a batch finds the
\* signal fired, saveJobs returns there with the cancellation error, no
\* store call is made by that step, and once the cycle has returned the
\* store is never called again.
C11_Step ==
    /\ (mainPc = "save" /\ savePc = "check" /\ cancelled) =>
          /\ mainPc' = "done"
          /\ ret' = "failed_to_save_jobs_ctx"
          /\ storeCalls' = storeCalls
          /\ metrics' = metrics
    /\ mainPc = "done" => storeCalls' = storeCalls /\ ret' = ret

\* C11, the state part: the cancellation error is returned only after the
\* signal fired and only by the check that follows a submitted batch.
C11_State ==
    ret = "failed_to_save_jobs_ctx" =>
        /\ cancelled
        /\ mainPc = "done"
        /\ savePc = "none"
        /\ BatchCalls # {}
        /\ metrics.TotalJobsSaved = 0

\* C11: in the persistence stage the signal is checked after each batch;
\* once the check finds it fired no remaining batch is submitted to the
\* store and the cycle returns the cancellation as its error.
C11_CancelBetweenBatches == [][C11_Step /\ C11_State']_vars

\* C11 witness: the cycle returned the cancellation error while a batch
\* of the list was still to be submitted.
C11_Witness ==
    /\ ret = "failed_to_save_jobs_ctx"
    /\ Cardinality(BatchCalls) * batchSize < Len(allJobs)

\* The composite key of a record: its trimmed, lowercased title, company
\* and location joined with '|'.
KeyOf(job) ==
    ToLower(TrimSpace(job.Title)) \o <<"|">> \o ToLower(TrimSpace(job.Company))
        \o <<"|">> \o ToLower(TrimSpace(job.Location))

\* The position of the last Reset call in the call log (0 when none).
LastReset ==
    LET R == {p \in 1..Len(ddCalls) : ddCalls[p].op = "Reset"}
    IN  IF R = {} THEN 0 ELSE CHOOSE p \in R : \A q \in R : q <= p

\* The RemoveDuplicates calls made since the last Reset.
SinceReset == (LastReset + 1)..Len(ddCalls)

\* The records passed in, and the records kept, since the last Reset:
\* pairs <<call, index>>.
PassedIn == {<<p, i>> \in SinceReset \X (1..MaxDedupBatch) : i <= Len(ddCalls[p].in)}
Kept == {<<p, i>> \in SinceReset \X (1..MaxDedupBatch) : i <= Len(ddCalls[p].out)}

\* C12: over the batches passed to RemoveDuplicates since the last Reset,
\* in whatever order they arrived, exactly one record of every key that
\* was passed in is kept (not zero, not two), and nothing else is kept.
C12_ExactlyOnePerKey ==
    /\ \A x \in PassedIn :
          Cardinality({y \in Kept :
              KeyOf(ddCalls[y[1]].out[y[2]]) = KeyOf(ddCalls[x[1]].in[x[2]])}) = 1
    /\ \A y \in Kept :
          \E x \in PassedIn : ddCalls[x[1]].in[x[2]] = ddCalls[y[1]].out[y[2]]

\* C12 witness: since the last Reset three batches arrived, two different
\* records of one key came in different batches, and that key also came
\* twice in one batch.
C12_Witness ==
    /\ Cardinality(SinceReset) = MaxDedupCalls
    /\ \E x \in PassedIn, y \in PassedIn :
          /\ x[1] < y[1]
          /\ ddCalls[x[1]].in[x[2]] # ddCalls[y[1]].in[y[2]]
          /\ KeyOf(ddCalls[x[1]].in[x[2]]) = KeyOf(ddCalls[y[1]].in[y[2]])
    /\ \E x \in PassedIn, y \in PassedIn :
          /\ x[1] = y[1] /\ x[2] < y[2]
          /\ KeyOf(ddCalls[x[1]].in[x[2]]) = KeyOf(ddCalls[y[1]].in[y[2]])

\* A step of the collection loop that consumes a successful result.
ConsumesSuccess ==
    /\ mainPc = "collect"
    /\ resultsChan # <<>>
    /\ resultsChan' = Tail(resultsChan)
    /\ Head(resultsChan).Error = "nil"

C13_State ==
    /\ \A i \in 1..Len(allJobs), j \in 1..Len(allJobs) :
          KeyOf(allJobs[i]) = KeyOf(allJobs[j]) => i = j
    /\ metrics.TotalJobsScraped - metrics.TotalDuplicates = Len(allJobs)
    /\ \A c \in BatchCalls :
          \A i \in 1..Len(storeCalls[c].jobs), j \in 1..Len(storeCalls[c].jobs) :
              KeyOf(storeCalls[c].jobs[i]) = KeyOf(storeCalls[c].jobs[j]) => i = j

\* C13 amended, the step part: consuming a successful batch merges exactly
\* the first record of each of its keys that the merged list lacks.
C13_Step ==
    ConsumesSuccess =>
        LET jobs == Head(resultsChan).Jobs
            New(i) == /\ \A k \in 1..Len(allJobs) : KeyOf(allJobs[k]) # KeyOf(jobs[i])
                      /\ \A h \in 1..(i - 1) : KeyOf(jobs[h]) # KeyOf(jobs[i])
            news == {i \in 1..Len(jobs) : New(i)}
            Nth(k) == CHOOSE i \in news : Cardinality({h \in news : h < i}) = k - 1
        IN  /\ Len(allJobs') = Len(allJobs) + Cardinality(news)
            /\ SubSeq(allJobs', 1, Len(allJobs)) = allJobs
            /\ \A k \in 1..Cardinality(news) : allJobs'[Len(allJobs) + k] = jobs[Nth(k)]

C14_BurstThenRefill ==
    \A s \in Sources :
        limiters[s].live =>
            /\ Len(rlAcq[s]) < limiters[s].limit => limiters[s].tokens > 0
            /\ \A k \in 1..Len(rlAcq[s]) :
                  k > limiters[s].limit => rlAcq[s][k] >= k - limiters[s].limit
            /\ \A c \in Callers :
                  (/\ rlCallers[c].pc = "select" /\ Registered(rlCallers[c].ref)
                   /\ rlCallers[c].ref[1] = s
                   /\ Len(rlAcq[s]) = limiters[s].limit /\ rlTicks[s] = 0)
                      => "token" \notin SelectReady(c)

\* C14 witness: a limiter handed out its N initial tokens before its first
\* tick and the (N+1)-th token after it.
C14_Witness ==
    \E s \in Sources :
        /\ limiters[s].live
        /\ Len(rlAcq[s]) = limiters[s].limit + 1
        /\ \A k \in 1..limiters[s].limit : rlAcq[s][k] = 0
        /\ rlAcq[s][limiters[s].limit + 1] = 1

\* C15 (as claimed): in every window of N consecutive refill intervals of
\* a source's limiter (one minute) at most N calls of Wait succeed.
C15_AtMostNPerMinute ==
    \A s \in Sources :
        limiters[s].live =>
            \A w \in 0..MaxTicks :
                Cardinality({k \in 1..Len(rlAcq[s]) :
                    rlAcq[s][k] >= w /\ rlAcq[s][k] <= w + limiters[s].limit - 1})
                  <= limiters[s].limit

\* The limiter objects created so far for source s.
Created(s) == {<<s, g>> : g \in 1..rlGen[s]}

\* C16, the step part: a caller that leaves the locked part of getLimiter
\* holds the registered limiter, whose limit is the requested one; when
\* the limit of the registered limiter differed, that limiter was retired
\* with its ticker stopped and its tokens as they were, and the entry now
\* holds a new limiter filled to the new capacity; otherwise the registry
\* is as it was.
C16_Step ==
    \A c \in Callers :
        (rlCallers[c].pc = "lock" /\ rlCallers'[c].pc = "select") =>
            LET s   == rlCallers[c].source
                rpm == rlCallers[c].rpm
                old == limiters[s]
            IN  /\ rlCallers'[c].ref = <<s, rlGen'[s]>>
                /\ limiters'[s].limit = rpm /\ limiters'[s].live
                /\ IF old.live /\ old.limit # rpm
                   THEN /\ limiters'[s].tokens = rpm
                        /\ rlGen'[s] = rlGen[s] + 1
                        /\ rlRetired'[<<s, rlGen[s]>>] =
                              [limit |-> old.limit, tokens |-> old.tokens, live |-> FALSE]
                   ELSE IF old.live
                        THEN limiters' = limiters /\ rlGen' = rlGen /\ rlRetired' = rlRetired
                        ELSE limiters'[s].tokens = rpm /\ rlGen'[s] = 1

\* C16, the state part: of the limiters created for a source only the
\* last one is registered; all the others are retired and their tickers
\* are stopped, so a source has at most one limiter that is refilled.
C16_State ==
    /\ \A s \in Sources :
          /\ limiters[s].live <=> rlGen[s] > 0
          /\ \A ref \in Created(s) :
                IF Registered(ref) THEN ref \notin DOMAIN rlRetired
                ELSE ref \in DOMAIN rlRetired /\ ~rlRetired[ref].live
    /\ \A ref \in DOMAIN rlRetired : ref \in Created(ref[1])
    /\ \A c \in Callers :
          rlCallers[c].pc = "select" =>
              /\ rlCallers[c].ref \in Created(rlCallers[c].source)
              /\ LimiterOf(rlCallers[c].ref).limit = rlCallers[c].rpm

\* C16: a call of Wait with a limit other than that of the registered
\* limiter stops the old limiter's refill and puts a new limiter, filled to
\* the new capacity, in its place; the registry holds one limiter per
\* source, also when several callers are inside getLimiter at once.
C16_ReplaceOnLimitChange == []C16_State /\ [][C16_Step]_vars

\* C16 witness: two callers were inside the locked part of getLimiter for
\* the same source with different limits; one still holds the limiter the
\* other has retired, which has tokens left.
C16_Witness ==
    \E c \in Callers, d \in Callers :
        /\ rlCallers[c].pc = "select" /\ rlCallers[d].pc = "select"
        /\ rlCallers[c].calls = 1 /\ rlCallers[d].calls = 1
        /\ ~Registered(rlCallers[c].ref)
        /\ rlRetired[rlCallers[c].ref].tokens > 0
        /\ Registered(rlCallers[d].ref)
        /\ rlCallers[c].source = rlCallers[d].source

\* C17 (as claimed): a call of Wait that waits on a limiter which has been
\* retired can complete without the signal: a token is there for it.  (The
\* ticker of a retired limiter is stopped, so a token that is not there
\* now never comes.)
C17_InFlightCompletes ==
    \A c \in Callers :
        (rlCallers[c].pc = "select" /\ ~Registered(rlCallers[c].ref) /\ ~cancelled)
            => "token" \in SelectReady(c)

\* The delay the min formula gives for attempt k >= 1.
MinFormula(k) ==
    LET linear == (retryConfig.InitialDelay * k * retryConfig.BackoffFactor.num)
                     \div retryConfig.BackoffFactor.den
    IN  Min(linear, retryConfig.MaxDelay)

RECURSIVE SumLen(_)
SumLen(S) == IF S = {} THEN 0
             ELSE LET s == CHOOSE x \in S : TRUE IN Len(CleanBatch(s)) + SumLen(S \ {s})

\* The keys of the records the enabled sources return in the clean cycle.
CleanKeys ==
    {KeyOf(CleanBatch(s)[i]) : <<s, i>> \in
        {x \in GetEnabledSources \X (1..3) : x[2] <= Len(CleanBatch(x[1]))}}

\* C19: after one cycle on a fresh orchestrator in which every source
\* succeeded and the store accepted every batch, TotalJobsScraped is the
\* number of records the sources returned, TotalDuplicates is that number
\* minus the number of distinct keys, TotalErrors is 0 and the store got
\* one SaveJobs call holding exactly one record of each key (5 fetched,
\* 4 unique, 1 duplicate, 4 persisted for the sources 1 and 2, and for
\* the sources 2 and 3).
C19_CleanCycleCounters ==
    (mainPc = "done" /\ ret = "nil") =>
        /\ metrics.TotalJobsScraped = SumLen(GetEnabledSources)
        /\ metrics.TotalDuplicates = SumLen(GetEnabledSources) - Cardinality(CleanKeys)
        /\ metrics.TotalErrors = 0
        /\ \A s \in GetEnabledSources :
              /\ metrics.SourcePerformance[s].JobsScraped = Len(CleanBatch(s))
              /\ metrics.SourcePerformance[s].Errors = 0
        /\ metrics.TotalJobsSaved = Cardinality(CleanKeys)
        /\ Len(storeCalls) = 1
        /\ storeCalls[1].op = "SaveJobs"
        /\ Len(storeCalls[1].jobs) = Cardinality(CleanKeys)
        /\ \A key \in CleanKeys :
              Cardinality({i \in 1..Len(storeCalls[1].jobs) :
                              KeyOf(storeCalls[1].jobs[i]) = key}) = 1
        /\ (GetEnabledSources = {1, 2} \/ GetEnabledSources = {2, 3}) =>
              /\ metrics.TotalJobsScraped = 5
              /\ Len(allJobs) = 4
              /\ metrics.TotalDuplicates = 1
              /\ Len(storeCalls[1].jobs) = 4

\* C19 witness: the cycle over the sources 1 and 2 ended, source 2's batch
\* having been consumed first and source 1 having needed a retry.
C19_Witness ==
    /\ mainPc = "done" /\ ret = "nil"
    /\ GetEnabledSources = {1, 2}
    /\ metrics.TotalJobsScraped = 5 /\ metrics.TotalDuplicates = 1
    /\ allJobs[1].Source = 2
    /\ Count(trace[1], "fetch_fail") = 1

\* The store accepted record job: in a SaveJobs or SaveJob call that
\* succeeded.
Accepted(job) ==
    \E c \in 1..Len(storeCalls) :
        storeCalls[c].ok /\ \E i \in 1..Len(storeCalls[c].jobs) : storeCalls[c].jobs[i] = job

\* C20: when the cycle ends without the signal having fired and SaveJobs
\* failed for some batch while every SaveJob call succeeded,
\* ScrapeAllSources returns nil, TotalJobsSaved is the number of unique
\* records, and the store accepted every one of them.
C20_BatchFailureRecovered ==
    (/\ mainPc = "done" /\ ~cancelled
     /\ \E c \in BatchCalls : ~storeCalls[c].ok
     /\ \A c \in (1..Len(storeCalls)) \ BatchCalls : storeCalls[c].ok)
        => /\ ret = "nil"
           /\ metrics.TotalJobsSaved = Len(allJobs)
           /\ \A k \in 1..Len(allJobs) : Accepted(allJobs[k])

\* C20 witness: the first batch of a list of more than batchSize records
\* failed, its records were saved one by one, and the cycle returned nil.
C20_Witness ==
    /\ mainPc = "done" /\ ret = "nil"
    /\ Len(allJobs) > batchSize
    /\ ~storeCalls[1].ok
    /\ \A c \in 2..Len(storeCalls) : storeCalls[c].ok
    /\ metrics.TotalJobsSaved = Len(allJobs)

\* Two RemoveDuplicates calls p < q of the call log with no Reset from p
\* to q: both ran on one seen-state lineage.
SameLineage(p, q) ==
    /\ p < q
    /\ \A k \in p..q : ddCalls[k].op = "RemoveDuplicates"

\* C21: once RemoveDuplicates has run on a batch, a later call on the same
\* Deduplicator (no Reset in between) that is given that batch again, or
\* the batch the first call returned, returns an empty batch.
C21_Idempotent ==
    \A p \in 1..Len(ddCalls), q \in 1..Len(ddCalls) :
        (/\ SameLineage(p, q)
         /\ ddCalls[q].in \in {ddCalls[p].in, ddCalls[p].out})
            => ddCalls[q].out = <<>>

\* C21 witness: a batch holding two records of one key was reduced to one
\* record, then the batch and its result were each passed in again.
C21_Witness ==
    /\ Len(ddCalls) = 3
    /\ SameLineage(1, 3)
    /\ Len(ddCalls[1].in) = 2
    /\ Len(ddCalls[1].out) = 1
    /\ ddCalls[2].in = ddCalls[1].in
    /\ ddCalls[3].in = ddCalls[1].out

\* The normalisation the claim speaks of: surrounding blanks trimmed,
\* letters lowercased.
Normalized(str) == ToLower(TrimSpace(str))

\* Two records whose title, company and location are equal after
\* normalisation.
SameTriple(r1, r2) ==
    /\ Normalized(r1.Title) = Normalized(r2.Title)
    /\ Normalized(r1.Company) = Normalized(r2.Company)
    /\ Normalized(r1.Location) = Normalized(r2.Location)

\* Call p of the log is a RemoveDuplicates call that processed a record
\* of the same triple as r2, and no Reset came from p to q.
ProcessedBefore(p, q, r2) ==
    /\ p < q
    /\ ddCalls[p].op = "RemoveDuplicates"
    /\ \A k \in p..q : ddCalls[k].op # "Reset"
    /\ \E i \in 1..Len(ddCalls[p].in) : SameTriple(ddCalls[p].in[i], r2)

\* C22: once RemoveDuplicates has processed a record r1, IsDuplicate
\* answers true for every record r2 whose title, company and location
\* equal those of r1 after trimming and lowercasing, whatever the source
\* and URL of the two records.
C22_IsDuplicateAfterProcessing ==
    \A q \in 1..Len(ddCalls) :
        (/\ ddCalls[q].op = "IsDuplicate"
         /\ \E p \in 1..Len(ddCalls) : ProcessedBefore(p, q, ddCalls[q].in[1]))
            => ddCalls[q].out = <<TRUE>>

\* C22 witness: a record was processed, and IsDuplicate was then asked
\* about a record of the same triple that differs from it in the raw
\* title, in the source and in the URL.
C22_Witness ==
    \E q \in 1..Len(ddCalls) :
        /\ ddCalls[q].op = "IsDuplicate"
        /\ \E p \in 1..Len(ddCalls) :
              /\ ProcessedBefore(p, q, ddCalls[q].in[1])
              /\ \E i \in 1..Len(ddCalls[p].in) :
                    LET r1 == ddCalls[p].in[i]
                        r2 == ddCalls[q].in[1]
                    IN  /\ SameTriple(r1, r2)
                        /\ r1.Title # r2.Title
                        /\ r1.Source # r2.Source
                        /\ r1.URL # r2.URL

\* The direct calls of stringSimilarity in the call log.
StringCalls == {k \in 1..Len(simCalls) : simCalls[k].fn = "stringSimilarity"}

\* C23: the similarity of two strings does not depend on their order,
\* and a non-empty string has similarity 1 with itself.
C23_Symmetric ==
    \A k \in StringCalls :
        LET a == simCalls[k].args[1]
            b == simCalls[k].args[2]
        IN  /\ simCalls[k].out = stringSimilarity(b, a)
            /\ (a = b /\ a # <<>>) => simCalls[k].out = Float(1, 1)

\* C23 witness: stringSimilarity was called on two strings with word sets
\* of different sizes that share a word, and returned a value strictly
\* between 0 and 1.
C23_Witness ==
    \E k \in StringCalls :
        /\ Len(Fields(simCalls[k].args[1])) < Len(Fields(simCalls[k].args[2]))
        /\ FloatLess(Float(0, 1), simCalls[k].out)
        /\ FloatLess(simCalls[k].out, Float(1, 1))

\* C24: whenever at least one of the two strings is empty, the other
\* being any string (the empty one included), the similarity is 0.
C24_EmptyIsZero ==
    \A k \in StringCalls :
        (simCalls[k].args[1] = <<>> \/ simCalls[k].args[2] = <<>>)
            => simCalls[k].out = Float(0, 1)

\* The direct calls of FindSimilarJobs in the call log.
FindCalls == {k \in 1..Len(simCalls) : simCalls[k].fn = "FindSimilarJobs"}

\* The blended score of two records as the claim words it: half the
\* title similarity, three tenths of the company similarity and two
\* tenths of the location similarity.
Blend(r1, r2) ==
    LET t == stringSimilarity(r1.Title, r2.Title)
        c == stringSimilarity(r1.Company, r2.Company)
        l == stringSimilarity(r1.Location, r2.Location)
    IN  Float(5 * t.num * c.den * l.den + 3 * c.num * t.den * l.den
                  + 2 * l.num * t.den * c.den,
              10 * t.den * c.den * l.den)

\* The index pairs i < j of a batch whose blended score lies in
\* [threshold, 1).
NearPairs(jobs, threshold) ==
    {x \in (1..Len(jobs)) \X (1..Len(jobs)) :
        /\ x[1] < x[2]
        /\ FloatGeq(Blend(jobs[x[1]], jobs[x[2]]), threshold)
        /\ FloatLess(Blend(jobs[x[1]], jobs[x[2]]), Float(1, 1))}

\* What the claim has reported for an index pair.
Reported(jobs, x) ==
    JobSimilarity(jobs[x[1]], jobs[x[2]], Blend(jobs[x[1]], jobs[x[2]]))

\* Every FindSimilarJobs call of the log returned one entry per index
\* pair of NearPairs and nothing else.
C25_State ==
    \A k \in FindCalls :
        LET jobs      == simCalls[k].args[1]
            threshold == simCalls[k].args[2]
            out       == simCalls[k].out
            pairs     == NearPairs(jobs, threshold)
        IN  /\ Len(out) = Cardinality(pairs)
            /\ \A x \in pairs :
                  Cardinality({n \in 1..Len(out) : out[n] = Reported(jobs, x)})
                      = Cardinality({y \in pairs : Reported(jobs, y) = Reported(jobs, x)})

\* A step that is a FindSimilarJobs call leaves the seen-set as it was.
C25_Step ==
    (/\ Len(simCalls') = Len(simCalls) + 1
     /\ simCalls'[Len(simCalls')].fn = "FindSimilarJobs")
        => seenJobs' = seenJobs

\* C25: FindSimilarJobs(batch, threshold) returns exactly the pairs
\* (batch[i], batch[j]), i < j, whose blended score is at least the
\* threshold and below 1, each once and with its score, and the call
\* leaves the seen-set unchanged.
C25_ExactlyNearPairs == []C25_State /\ [][C25_Step]_vars

\* C25 witness: on a Deduplicator with a non-empty seen-set a batch of
\* three records was searched; one pair scored exactly the threshold and
\* was returned, one scored above it and was returned, one scored below
\* it and was left out.
C25_Witness ==
    /\ seenJobs # {}
    /\ \E k \in FindCalls :
          LET jobs      == simCalls[k].args[1]
              threshold == simCalls[k].args[2]
              out       == simCalls[k].out
          IN  /\ Len(jobs) = 3
              /\ Len(out) = 2
              /\ \E n \in 1..2 : out[n].Similarity = threshold
              /\ \E n \in 1..2 : FloatLess(threshold, out[n].Similarity)
              /\ \E i \in 1..2, j \in 2..3 :
                    i < j /\ FloatLess(Blend(jobs[i], jobs[j]), threshold)

\* C26: at every threshold, no pair FindSimilarJobs returns consists of
\* two records whose trimmed, lowercased title, company and location are
\* all equal.
C26_NoExactDuplicates ==
    \A k \in FindCalls :
        \A n \in 1..Len(simCalls[k].out) :
            ~SameTriple(simCalls[k].out[n].Job1, simCalls[k].out[n].Job2)

\* The callers that are inside ScrapeAllSources.
InCycle ==
    {"main" : x \in {"scraping"} \cap {mainAt}}
        \cup {"periodic" : x \in {"scraping"} \cap {periodicAt}}

\* C27: at most one cycle runs on the orchestrator at any time; a cycle
\* started by the periodic ticker overlaps neither the initial cycle run
\* by main nor another scheduled cycle.
C27_CyclesNeverOverlap == Cardinality(InCycle) <= 1

\* A step taken after the signal has fired: no task appends a fetch
\* attempt to its run, and a task that leaves the token wait or the
\* backoff wait leaves it with a terminal cancellation result.
C28_Step ==
    cancelled =>
        \A s \in Sources :
            /\ \A i \in (Len(trace[s]) + 1)..Len(trace'[s]) : ~IsFetch(trace'[s][i])
            /\ (pc[s] \in {"wait", "backoff"} /\ pc'[s] # pc[s]) =>
                  /\ pc'[s] = "send"
                  /\ result'[s].Error \in {"ratelimit", "ctx"}

\* C28: once the cancellation signal has fired, every task in flight ends
\* at its next suspension point with a terminal result and starts no new
\* fetch attempt.
C28_SignalStopsTasks == [][C28_Step]_vars

\* C29: when a cycle has completed, every source that was enabled in it,
\* the failed ones included, has a per-source metrics entry with the
\* cycle's elapsed time and last-run timestamp, and every failed source
\* shows an error in its entry.
C29_FailedSourcesReported ==
    (mainPc = "done" /\ ret = "nil") =>
        \A s \in enabledSources :
            /\ metrics.SourcePerformance[s].Timed
            /\ FailedSource(s) => metrics.SourcePerformance[s].Errors >= 1

\* The sum of one field over the finished cycles 1..n of the log.
RECURSIVE SumOfCycles(_, _)
SumOfCycles(field, n) ==
    IF n = 0 THEN 0 ELSE cycleLog[n][field] + SumOfCycles(field, n - 1)

\* When a cycle has returned, every global counter is the sum of the
\* amounts of the cycles run so far, the one that has just returned
\* included.
C30_State ==
    mainPc = "done" =>
        /\ metrics.TotalJobsScraped
              = SumOfCycles("fetched", Len(cycleLog)) + CycleAmounts.fetched
        /\ metrics.TotalJobsSaved
              = SumOfCycles("saved", Len(cycleLog)) + CycleAmounts.saved
        /\ metrics.TotalDuplicates
              = SumOfCycles("duplicates", Len(cycleLog)) + CycleAmounts.duplicates
        /\ metrics.TotalErrors
              = SumOfCycles("errors", Len(cycleLog)) + CycleAmounts.errors

\* No step lowers a global counter.
C30_Step ==
    /\ metrics'.TotalJobsScraped >= metrics.TotalJobsScraped
    /\ metrics'.TotalJobsSaved >= metrics.TotalJobsSaved
    /\ metrics'.TotalDuplicates >= metrics.TotalDuplicates
    /\ metrics'.TotalErrors >= metrics.TotalErrors

\* C30: over any sequence of cycles on one orchestrator the global
\* counters of records fetched, records saved, duplicates removed and
\* errors each equal the sum of the per-cycle amounts and never decrease.
C30_CumulativeCounters == []C30_State /\ [][C30_Step]_vars

\* C31: a task that passed the gate gives its slot back exactly once, on
\* whichever path it leaves scrapeSource (success, retries used up, Wait
\* cancelled, backoff cancelled), and before it is done; when
\* ScrapeAllSources has returned no slot is held.
C31_GateReleasedOnce ==
    /\ \A s \in Sources :
          /\ Count(trace[s], "gate") <= 1
          /\ Count(trace[s], "release") <= Count(trace[s], "gate")
          /\ pc[s] \in {"wgdone", "exited"} =>
                Count(trace[s], "gate") = 1 /\ Count(trace[s], "release") = 1
    /\ mainPc = "done" =>
          /\ semaphore = 0
          /\ \A s \in Sources : Count(trace[s], "release") = Count(trace[s], "gate")

\* C31 witness: the cycle has returned after one task used up its retries
\* and another was cancelled in Wait, and each gave its slot back.
C31_Witness ==
    /\ mainPc = "done"
    /\ \E s \in Sources :
          Count(trace[s], "fetch_fail") = MaxRetries + 1 /\ Count(trace[s], "release") = 1
    /\ \E s \in Sources :
          Count(trace[s], "wait_ctx") = 1 /\ Count(trace[s], "release") = 1

\* The records of the SaveJobs calls among the store calls 1..n, one batch
\* after the other.
RECURSIVE SubmittedInBatches(_)
SubmittedInBatches(n) ==
    IF n = 0 THEN <<>>
    ELSE SubmittedInBatches(n - 1)
             \o (IF storeCalls[n].op = "SaveJobs" THEN storeCalls[n].jobs ELSE <<>>)

\* C32: the batches saveJobs submits are consecutive pieces of the merged
\* list in list order, each of at most batchSize (50) records and all but
\* the last of exactly batchSize; when the signal has not fired and
\* saveJobs has returned, the batches together are the whole list, every
\* record in exactly one of them.
C32_ConsecutiveBatches ==
    LET all == SubmittedInBatches(Len(storeCalls))
    IN  /\ \A q \in BatchCalls :
              /\ Len(storeCalls[q].jobs) \in 1..batchSize
              /\ (\E r \in BatchCalls : r > q) => Len(storeCalls[q].jobs) = batchSize
        /\ Len(all) <= Len(allJobs)
        /\ all = SubSeq(allJobs, 1, Len(all))
        /\ (mainPc = "done" /\ ~cancelled) => all = allJobs

\* C32 witness: a list of batchSize + 1 records was saved in two batches,
\* the first of them through the record-by-record fallback, and saveJobs
\* returned with the signal not fired.
C32_Witness ==
    /\ mainPc = "done"
    /\ ~cancelled
    /\ Len(allJobs) = batchSize + 1
    /\ Cardinality(BatchCalls) = 2
    /\ ~storeCalls[1].ok

\* The strictly increasing maps from the positions of a sequence of
\* length m into the positions of a sequence of length n.
Embeddings(m, n) ==
    {f \in [1..m -> 1..n] : \A a \in 1..m, b \in 1..m : a < b => f[a] < f[b]}

\* A RemoveDuplicates step: the call's result is a subsequence of its
\* batch in the batch's order, and of every key the seen-set did not hold
\* before the call the result keeps exactly the first record of the batch
\* with that key.
C33_Step ==
    (/\ Len(ddCalls') = Len(ddCalls) + 1
     /\ ddCalls'[Len(ddCalls')].op = "RemoveDuplicates")
        => LET batch == ddCalls'[Len(ddCalls')].in
               out   == ddCalls'[Len(ddCalls')].out
           IN  /\ \E f \in Embeddings(Len(out), Len(batch)) :
                     \A k \in 1..Len(out) : out[k] = batch[f[k]]
               /\ \A i \in 1..Len(batch) :
                     md5(KeyOf(batch[i])) \notin seenJobs =>
                         LET first == CHOOSE j \in 1..i :
                                          /\ KeyOf(batch[j]) = KeyOf(batch[i])
                                          /\ \A h \in 1..(j - 1) :
                                                KeyOf(batch[h]) # KeyOf(batch[i])
                         IN  {k \in 1..Len(out) : KeyOf(out[k]) = KeyOf(batch[i])}
                                 = {k \in 1..Len(out) : out[k] = batch[first]}
                             /\ Cardinality({k \in 1..Len(out) :
                                                 out[k] = batch[first]}) = 1

\* C33: the result of RemoveDuplicates(batch) is a subsequence of batch
\* in the original order, and for every key not seen before the call the
\* kept record is the first record of batch with that key.
C33_FirstOccurrenceWins == [][C33_Step]_vars

\* C33 witness: a batch of two different records of one unseen key was
\* passed in and one record came back.
C33_Witness ==
    \E p \in 1..Len(ddCalls) :
        /\ ddCalls[p].op = "RemoveDuplicates"
        /\ p = LastReset + 1
        /\ Len(ddCalls[p].in) = 2
        /\ ddCalls[p].in[1] # ddCalls[p].in[2]
        /\ KeyOf(ddCalls[p].in[1]) = KeyOf(ddCalls[p].in[2])
        /\ Len(ddCalls[p].out) = 1

\* C34: the number of tokens of every limiter, registered or replaced, is
\* between 0 and its capacity in every reachable state, and a tick of the
\* ticker of a limiter whose pool is full leaves the pool as it is.
C34_PoolState ==
    /\ \A s \in Sources :
          limiters[s].live => limiters[s].tokens \in 0..limiters[s].limit
    /\ \A ref \in DOMAIN rlRetired :
          rlRetired[ref].tokens \in 0..rlRetired[ref].limit

C34_FullRefillStep ==
    \A s \in Sources :
        (/\ limiters[s].live /\ limiters[s].tokens = limiters[s].limit
         /\ rlTicks'[s] = rlTicks[s] + 1)
            => limiters'[s] = limiters[s]

C34_TokensWithinCapacity == []C34_PoolState /\ [][C34_FullRefillStep]_vars

\* C34 witness: a limiter handed out tokens to two callers, was refilled
\* to its capacity and then ticked once more with its pool full.
C34_Witness ==
    \E s \in Sources :
        /\ limiters[s].live
        /\ limiters[s].tokens = limiters[s].limit
        /\ Len(rlAcq[s]) = 1
        /\ rlTicks[s] = 2

\* C35: a step on the limiter of one source (a token taken by Wait, a
\* tick of its ticker, its replacement by getLimiter) leaves the limiter
\* of every other source, registered or replaced, as it is; and a caller
\* of Wait whose limiter holds a token can take it whatever the pools of
\* the other sources hold.
OperatedSource(s) ==
    \/ rlTicks'[s] # rlTicks[s]
    \/ \E c \in Callers :
          /\ rlCallers'[c] # rlCallers[c]
          /\ rlCallers[c].source = s
          /\ rlCallers[c].pc \in {"lock", "select"}

C35_PoolsState ==
    \A c \in Callers :
        (rlCallers[c].pc = "select" /\ LimiterOf(rlCallers[c].ref).tokens > 0)
            => "token" \in SelectReady(c)

C35_OtherSourceStep ==
    \A a \in Sources, b \in Sources :
        (a # b /\ OperatedSource(a)) =>
            /\ limiters'[b] = limiters[b]
            /\ rlGen'[b] = rlGen[b]
            /\ \A ref \in DOMAIN rlRetired :
                  ref[1] = b => ref \in DOMAIN rlRetired' /\ rlRetired'[ref] = rlRetired[ref]

C35_PoolsIndependent == []C35_PoolsState /\ [][C35_OtherSourceStep]_vars

\* C35 witness: a caller waits in Wait on a source whose pool is empty
\* while the other caller took a token of the other source, whose clock
\* never ticked, after the first pool ran empty.
C35_Witness ==
    \E a \in Sources, b \in Sources, c \in Callers, d \in Callers :
        /\ a # b /\ c # d
        /\ ~cancelled
        /\ limiters[a].live /\ limiters[a].tokens = 0 /\ rlTicks[a] = 0
        /\ rlCallers[c].pc = "select" /\ rlCallers[c].ref = <<a, rlGen[a]>>
        /\ rlCallers[d].pc = "idle" /\ rlCallers[d].out = "nil"
        /\ rlCallers[d].source = b /\ rlCallers[d].calls = 2
        /\ limiters[b].live /\ Len(rlAcq[b]) = 1 /\ Len(rlAcq[a]) = 1

\* C36: under the fair scheduling of SpecLive every call of
\* ScrapeAllSources returns: a task about to send always finds room in the
\* result channel, and eventually every spawned task has passed the gate,
\* delivered its result and exited, the channel is closed and drained, and
\* the call has returned.
C36_SendHasRoom ==
    \A s \in Sources :
        pc[s] = "send" => Len(resultsChan) < Cardinality(enabledSources)

C36_Returned ==
    /\ mainPc = "done"
    /\ enabledSources # {} =>
          /\ closed /\ resultsChan = <<>> /\ semaphore = 0 /\ wg = 0
          /\ \A s \in enabledSources :
                /\ pc[s] = "exited"
                /\ Count(trace[s], "gate") = 1
                /\ Count(trace[s], "send") = 1

C36_Terminates == []C36_SendHasRoom /\ <>C36_Returned

\* C36 witness: the call returned without the signal after a task had to
\* wait for the refill of an empty pool and another went through all its
\* retries.
C36_Witness ==
    /\ C36_Returned
    /\ ~cancelled
    /\ \E a \in Sources, b \in Sources :
          /\ a # b
          /\ rlTicks[a] >= 1 /\ limiters[a].tokens = 0 /\ Count(trace[a], "token") = 1
          /\ Count(trace[a], "fetch_ok") = 1
          /\ Count(trace[b], "fetch_fail") = MaxRetries + 1

\* C37 (as claimed): when a cycle has returned, cancelled during
\* persistence or not, every key of the seen-set is the key of a record
\* that was submitted to the store (with SaveJobs or with SaveJob).
C37_SeenImpliesSubmitted ==
    mainPc = "done" =>
        \A h \in seenJobs :
            \E c \in 1..Len(storeCalls) :
                \E i \in 1..Len(storeCalls[c].jobs) :
                    generateJobHash(storeCalls[c].jobs[i]) = h

\* C38 (as claimed): when a cycle has returned, TotalJobsSaved is at most
\* the number of records the store accepted in the cycle: the records of
\* the SaveJobs calls that succeeded and one for each SaveJob call that
\* succeeded.
C38_SavedAtMostAccepted ==
    mainPc = "done" => metrics.TotalJobsSaved <= AcceptedUpTo(Len(storeCalls))

\* A record of the same normalized triple as record i of call p came
\* before it: earlier in the batch of p, or in a call since the last Reset.
TripleSeenEarlier(p, i) ==
    \/ \E k \in 1..(i - 1) : SameTriple(ddCalls[p].in[k], ddCalls[p].in[i])
    \/ \E x \in PassedIn : x[1] < p /\ SameTriple(ddCalls[x[1]].in[x[2]], ddCalls[p].in[i])

\* C39 (as claimed): RemoveDuplicates keeps every record whose normalized
\* (title, company, location) triple was not seen earlier, and two records
\* passed in whose normalized triples differ have different digests, also
\* when a field contains '|'.
C39_DropsOnlySameTriple ==
    /\ \A x \in PassedIn :
          ~TripleSeenEarlier(x[1], x[2]) =>
              \E j \in 1..Len(ddCalls[x[1]].out) :
                  ddCalls[x[1]].out[j] = ddCalls[x[1]].in[x[2]]
    /\ \A x \in PassedIn, y \in PassedIn :
          ~SameTriple(ddCalls[x[1]].in[x[2]], ddCalls[y[1]].in[y[2]]) =>
              generateJobHash(ddCalls[x[1]].in[x[2]]) # generateJobHash(ddCalls[y[1]].in[y[2]])

\* The records of digest h in a list.
OfDigest(seq, h) == {i \in 1..Len(seq) : generateJobHash(seq[i]) = h}

\* The records of digest h that the RemoveDuplicates calls kept: those of
\* the calls that returned and those of the calls still running.
KeptOf(h) ==
    {<<p, i>> \in (1..Len(ddCalls)) \X (1..MaxDedupBatch) :
        ddCalls[p].op = "RemoveDuplicates" /\ i \in OfDigest(ddCalls[p].out, h)}

RunningKeptOf(h) ==
    {<<c, i>> \in Callers \X (1..MaxDedupBatch) :
        ddRun[c].pc # "idle" /\ i \in OfDigest(ddRun[c].out, h)}

\* A goroutine is between Lock and Unlock of RemoveDuplicates.
InsideRemoveDuplicates(c) == ddRun[c].pc \in {"lookup", "store", "unlock"}

\* C40: on a Deduplicator shared by concurrent callers, over all calls
\* (returned or running) exactly one record is kept of every digest in the
\* seen-set and none of any other, so of two overlapping calls that both
\* hold a record of a new key exactly one keeps it; at most one goroutine
\* is inside RemoveDuplicates, and none is while IsDuplicate reads the
\* seen-set.
C40_AtomicDedup ==
    /\ \A job \in AtomicJobs :
          LET h == generateJobHash(job)
          IN  Cardinality(KeptOf(h)) + Cardinality(RunningKeptOf(h))
                  = IF h \in seenJobs THEN 1 ELSE 0
    /\ \A c \in Callers, d \in Callers :
          (c # d /\ InsideRemoveDuplicates(c)) =>
              ~InsideRemoveDuplicates(d) /\ ddRun[d].pc # "read"

\* C40 witness: two goroutines called RemoveDuplicates with different
\* records of one new key, the second call began before the first
\* returned; the first kept its record, the second has dropped its own and
\* still holds the mutex while the first goroutine waits in IsDuplicate.
C40_Witness ==
    \E c \in Callers, d \in Callers :
        /\ c # d
        /\ ddRun[c].pc = "unlock" /\ ddRun[c].began = 0
        /\ Len(ddCalls) = 1 /\ ddCalls[1].op = "RemoveDuplicates"
        /\ ddRun[d].calls = 2 /\ ddRun[d].op = "IsDuplicate" /\ ddRun[d].pc = "lock"
        /\ \E i \in 1..Len(ddRun[c].jobs) :
              LET h == generateJobHash(ddRun[c].jobs[i])
              IN  /\ OfDigest(ddRun[c].out, h) = {}
                  /\ OfDigest(ddCalls[1].out, h) # {}
                  /\ \A j \in OfDigest(ddCalls[1].out, h) :
                        ddCalls[1].out[j] # ddRun[c].jobs[i]

====
